---- MODULE Spec2Model ----
(***************************************************************************)
(* A state-machine model of RemoteCameraCalibration:                       *)
(*   - calibration/board.py            (CalibrationBoard and its scaler)   *)
(*   - calibration/calibration_base.py (CameraBaseCalibrator)              *)
(*   - main.py                         (RemoteConnection)                  *)
(*                                                                         *)
(* Python values are modelled as tagged records so that the isinstance     *)
(* tests of the setters can be evaluated.  Floating point lengths are      *)
(* carried in tenths of a millimetre; NaN and +inf are separate kinds.     *)
(***************************************************************************)
EXTENDS Integers, Sequences, FiniteSets, TLC

VARIABLES
    board,      \* the CalibrationBoard object (exists = FALSE before construction)
    bout,       \* what the last board operation did (arguments, exception, results)
    fs,         \* the file system: image folders, directories, result files
    cal,        \* the CameraBaseCalibrator object (exists = FALSE before construction)
    cout,       \* what the last calibrator operation did
    conn,       \* the RemoteConnection object with its SSH client
    rout        \* what the last RemoteConnection operation did

boardVars == <<board, bout>>
calVars == <<fs, cal, cout>>
remoteVars == <<conn, rout>>
vars == <<board, bout, fs, cal, cout, conn, rout>>

----------------------------------------------------------------------------
(* Bounds of the model *)

\* grid dimensions offered to the board run over 1..MaxSquares (1 is invalid)
MaxSquares == 4
\* an image folder lists at most MaxFiles entries
MaxFiles == 3
\* a hand-eye call is given at most MaxPoses gripper poses
MaxPoses == 3

----------------------------------------------------------------------------
(* Python values *)

PyInt(n)    == [t |-> "int",   i |-> n, s |-> "", f |-> "fin"]
PyBool(b)   == [t |-> "bool",  i |-> IF b THEN 1 ELSE 0, s |-> "", f |-> "fin"]
\* a finite float, given in tenths: PyFloat(127) is 12.7
PyFloat(n)  == [t |-> "float", i |-> n, s |-> "", f |-> "fin"]
PyNaN       == [t |-> "float", i |-> 0, s |-> "", f |-> "nan"]
PyInf       == [t |-> "float", i |-> 0, s |-> "", f |-> "inf"]
PyStr(x)    == [t |-> "str",   i |-> 0, s |-> x,  f |-> "fin"]
PyNone      == [t |-> "none",  i |-> 0, s |-> "", f |-> "fin"]

\* isinstance(value, int): bool is a subclass of int
IsInt(v)    == v.t \in {"int", "bool"}
\* isinstance(value, (int, float))
IsNumber(v) == v.t \in {"int", "bool", "float"}
IsStr(v)    == v.t = "str"

\* the numeric value of a finite number, in tenths
Tenths(v)   == IF v.t = "float" THEN v.i ELSE 10 * v.i

\* value <= 0 as Python evaluates it: every comparison with NaN is False
LeqZero(v)  == v.f = "fin" /\ Tenths(v) <= 0
\* float(value): the stored length, [k, t] with t in tenths when k = "fin"
ToFloat(v)  == [k |-> v.f, t |-> IF v.f = "fin" THEN Tenths(v) ELSE 0]

----------------------------------------------------------------------------
(* calibration/board.py : CalibrationBoard *)

PAPER_SIZES ==
    ("A4" :> <<210, 297>>) @@ ("A3" :> <<297, 420>>) @@ ("A5" :> <<148, 210>>) @@
    ("Letter" :> <<216, 279>>) @@ ("Legal" :> <<216, 356>>)

\* family is the concrete class: "checker", "charuco", "aruco" or "circle"; the
\* last four fields exist on the families that define them
NoBoard ==
    [exists |-> FALSE, family |-> "", squares_x |-> 0, squares_y |-> 0,
     square_length_mm |-> [k |-> "fin", t |-> 0], dpi |-> 0, paper_size |-> "",
     aruco_dict_name |-> "", marker_length_mm |-> [k |-> "fin", t |-> 0],
     marker_length_ratio |-> [k |-> "fin", t |-> 0], asymmetric |-> FALSE]

\* the outcome of a setter or of __init__: the exception raised ("none" when it
\* returns) and the object afterwards
Ret(b)        == [exc |-> "none", obj |-> b]
Raise(e, b)   == [exc |-> e, obj |-> b]
Bind(r, F(_)) == IF r.exc # "none" THEN r ELSE F(r.obj)

set_squares_x(b, value) ==
    IF ~IsInt(value) \/ value.i < 2
    THEN Raise("ValueError", b)
    ELSE Ret([b EXCEPT !.squares_x = value.i])

set_squares_y(b, value) ==
    IF ~IsInt(value) \/ value.i < 2
    THEN Raise("ValueError", b)
    ELSE Ret([b EXCEPT !.squares_y = value.i])

set_square_length_mm(b, value) ==
    IF ~IsNumber(value) \/ LeqZero(value)
    THEN Raise("ValueError", b)
    ELSE Ret([b EXCEPT !.square_length_mm = ToFloat(value)])

\* dpi.setter that raises a too small value to the minimum instead of refusing
setDpiClamped(b, value) ==
    IF ~IsInt(value)
    THEN Raise("ValueError", b)
    ELSE Ret([b EXCEPT !.dpi = IF value.i < 50 THEN 50 ELSE value.i])

set_dpi(b, value) ==
    IF ~IsInt(value) \/ value.i < 50
    THEN Raise("ValueError", b)
    ELSE Ret([b EXCEPT !.dpi = value.i])

set_paper_size(b, value) ==
    IF ~IsStr(value) \/ value.s \notin DOMAIN PAPER_SIZES
    THEN Raise("ValueError", b)
    ELSE Ret([b EXCEPT !.paper_size = value.s])

\* __init__: the five assignments in order; the first one that raises ends it
\* and no object is produced
CalibrationBoard_init(a) ==
    LET r1 == set_squares_x(NoBoard, a.squares_x)
        r2 == Bind(r1, LAMBDA b : set_squares_y(b, a.squares_y))
        r3 == Bind(r2, LAMBDA b : set_square_length_mm(b, a.square_length_mm))
        r4 == Bind(r3, LAMBDA b : set_dpi(b, a.dpi))
        r5 == Bind(r4, LAMBDA b : set_paper_size(b, a.paper_size))
    IN  IF r5.exc = "none"
        THEN Ret([r5.obj EXCEPT !.exists = TRUE])
        ELSE Raise(r5.exc, NoBoard)

----------------------------------------------------------------------------
(* calibration/board.py : the board families *)

ARUCO_DICTS == {"4x4_50", "5x5_100", "5x5_250", "6x6_1000", "7x7_1000"}

\* aruco_dict_name.setter: a value that is not a key of the table is refused
set_aruco_dict_name(b, value) ==
    IF ~(IsStr(value) /\ value.s \in ARUCO_DICTS)
    THEN Raise("ValueError", b)
    ELSE Ret([b EXCEPT !.aruco_dict_name = value.s])

\* marker_length_mm.setter
set_marker_length_mm(b, value) ==
    IF ~IsNumber(value) \/ LeqZero(value)
    THEN Raise("ValueError", b)
    ELSE Ret([b EXCEPT !.marker_length_mm = ToFloat(value)])

\* 0 < value <= 1 as Python evaluates it: False for NaN and for inf
InUnitInterval(v) == v.f = "fin" /\ Tenths(v) > 0 /\ Tenths(v) <= 10

\* marker_length_ratio.setter
set_marker_length_ratio(b, value) ==
    IF ~IsNumber(value) \/ ~InUnitInterval(value)
    THEN Raise("ValueError", b)
    ELSE Ret([b EXCEPT !.marker_length_ratio = ToFloat(value)])

\* asymmetric.setter
set_asymmetric(b, value) ==
    IF value.t # "bool"
    THEN Raise("ValueError", b)
    ELSE Ret([b EXCEPT !.asymmetric = (value.i = 1)])

\* a subclass __init__: super().__init__(...) and then the family's own
\* assignment r; no object is produced when either raises
Constructed(r, family) ==
    IF r.exc = "none"
    THEN Ret([r.obj EXCEPT !.family = family])
    ELSE Raise(r.exc, NoBoard)

Checkerboard_init(a) == Constructed(CalibrationBoard_init(a), "checker")

ArucoBasedBoard_init(a) ==
    Bind(CalibrationBoard_init(a),
         LAMBDA b : set_aruco_dict_name(b, a.aruco_dict_name))

CharucoBoard_init(a) ==
    Constructed(Bind(ArucoBasedBoard_init(a),
                     LAMBDA b : set_marker_length_mm(b, a.marker_length_mm)),
                "charuco")

ArucoBoard_init(a) ==
    Constructed(Bind(ArucoBasedBoard_init(a),
                     LAMBDA b : set_marker_length_ratio(b, a.marker_length_ratio)),
                "aruco")

CircleGridBoard_init(a) ==
    Constructed(Bind(CalibrationBoard_init(a),
                     LAMBDA b : set_asymmetric(b, a.asymmetric)),
                "circle")

----------------------------------------------------------------------------
(* calibration/board.py : the scaler and generate *)

\* the canvas dimension rounded to the nearest pixel instead of truncated
CanvasPxRounded(paper_mm, dpi) == (paper_mm * dpi * 10 + 127) \div 254

\* int(paper_mm * (dpi / 25.4)): no paper dimension is a multiple of 127, so
\* the exact product is an integer only when 127 divides dpi, and there
\* dpi / 25.4 is computed exactly (127 / 25.4 = 5.0); the truncation is the
\* exact floor.
CanvasPx(paper_mm, dpi) == (paper_mm * dpi * 10) \div 254

\* int() truncates a double.  When the exact value of the expression is not an
\* integer the double lies within rounding error of it and truncates to the
\* exact floor.  When the exact value is an integer N the double is N or just
\* below N (3 * 12.7 * (50 / 25.4) evaluates to 74.99999999999999), and int()
\* gives N or N - 1.  The two tables list every case in which it gives N - 1,
\* found by evaluating the expressions in CPython over grids up to 8 x 8,
\* lengths 0.1, 1, 12.7, 20 and 50 mm, 50, 72, 150 and 300 dpi and the five
\* paper formats, which cover the arguments the actions below draw.

\* <<squares, length in tenths, dpi>> for int(squares * length * px_per_mm)
NaturalLow ==
    { <<3, 127, 50>>, <<3, 127, 150>>, <<3, 127, 300>>,
      <<6, 127, 50>>, <<6, 127, 150>>, <<6, 127, 300>> }

\* <<b, c, a>> for int(b * (c / a))
ScaledLow ==
    { <<11, 425, 11>>, <<47, 874, 47>>, <<47, 1748, 47>>, <<47, 1748, 94>>,
      <<94, 1748, 47>>, <<94, 1748, 94>>, <<175, 425, 175>>, <<354, 874, 354>>,
      <<354, 874, 708>>, <<354, 1275, 118>>, <<590, 1275, 118>>,
      <<688, 413, 688>>, <<708, 874, 354>>, <<708, 874, 708>>,
      <<708, 1275, 118>>, <<708, 1275, 236>>, <<708, 1748, 708>>,
      <<1476, 874, 1476>>, <<1653, 3507, 1653>>, <<2952, 1748, 2952>>,
      <<3543, 2551, 1181>> }

\* int(squares * square_length_mm * px_per_mm), the length given in tenths
NaturalPx(squares, tenths, dpi) ==
    IF <<squares, tenths, dpi>> \in NaturalLow
    THEN ((squares * tenths * dpi) \div 254) - 1
    ELSE (squares * tenths * dpi) \div 254

\* int(b * scale) with scale = c / a
ScaledPx(b, c, a) ==
    IF <<b, c, a>> \in ScaledLow THEN ((b * c) \div a) - 1 ELSE (b * c) \div a

NoScale ==
    [exc |-> "none", canvas_w |-> 0, canvas_h |-> 0, nat_w |-> 0, nat_h |-> 0,
     scaled_w |-> 0, scaled_h |-> 0, branch |-> "none"]

\* FitBoard without the "if scaled_h > canvas_h_px" re-fit: always width-bound
FitBoardWidthOnly(canvas_w_px, canvas_h_px, board_w_px, board_h_px) ==
    LET base == [NoScale EXCEPT !.canvas_w = canvas_w_px, !.canvas_h = canvas_h_px,
                                !.nat_w = board_w_px, !.nat_h = board_h_px]
    IN  IF board_w_px = 0
        THEN [base EXCEPT !.exc = "ZeroDivisionError"]
        ELSE [base EXCEPT !.scaled_w = canvas_w_px,
                          !.scaled_h = ScaledPx(board_h_px, canvas_w_px, board_w_px),
                          !.branch = "width"]

\* the second half of _compute_canvas_and_scale, once the natural board size
\* is known (lines 92-104)
FitBoard(canvas_w_px, canvas_h_px, board_w_px, board_h_px) ==
    LET base == [NoScale EXCEPT !.canvas_w = canvas_w_px, !.canvas_h = canvas_h_px,
                                !.nat_w = board_w_px, !.nat_h = board_h_px]
    IN  IF board_w_px = 0
        THEN [base EXCEPT !.exc = "ZeroDivisionError"]
        ELSE LET scaled_h == ScaledPx(board_h_px, canvas_w_px, board_w_px)
             IN  IF scaled_h > canvas_h_px
                 THEN [base EXCEPT !.scaled_w = ScaledPx(board_w_px, canvas_h_px,
                                                         board_h_px),
                                   !.scaled_h = canvas_h_px,
                                   !.branch = "height"]
                 ELSE [base EXCEPT !.scaled_w = canvas_w_px, !.scaled_h = scaled_h,
                                   !.branch = "width"]

\* _compute_canvas_and_scale: the canvas and footprint it returns, or the
\* exception int() or the division raises
compute_canvas_and_scale(b) ==
    LET paper       == PAPER_SIZES[b.paper_size]
        canvas_w_px == CanvasPx(paper[1], b.dpi)
        canvas_h_px == CanvasPx(paper[2], b.dpi)
        len         == b.square_length_mm
        base        == [NoScale EXCEPT !.canvas_w = canvas_w_px,
                                       !.canvas_h = canvas_h_px]
    IN  IF len.k = "nan" THEN [base EXCEPT !.exc = "ValueError"]
        ELSE IF len.k = "inf" THEN [base EXCEPT !.exc = "OverflowError"]
        ELSE FitBoard(canvas_w_px, canvas_h_px,
                      NaturalPx(b.squares_x, len.t, b.dpi),
                      NaturalPx(b.squares_y, len.t, b.dpi))

Min(a, b) == IF a <= b THEN a ELSE b

\* _generate_board_image with the half-column shift given to every row of an
\* asymmetric grid, not only to the odd rows
circlesShiftEveryRow(b, width_px, height_px) ==
    [radius  |-> Min(width_px \div (4 * b.squares_x),
                     height_px \div (4 * b.squares_y)),
     circles |->
       { LET cx == IF b.asymmetric
                   THEN ((2 * x + 2) * width_px) \div (2 * b.squares_x)
                   ELSE ((2 * x + 1) * width_px) \div (2 * b.squares_x)
             cy == ((2 * y + 1) * height_px) \div (2 * b.squares_y)
         IN  [x |-> x, y |-> y, cx |-> cx, cy |-> cy,
              drawn |-> (0 <= cx /\ cx < width_px /\ 0 <= cy /\ cy < height_px)]
         : x \in 0..(b.squares_x - 1), y \in 0..(b.squares_y - 1) }]

\* CircleGridBoard._generate_board_image: the radius and, for every grid cell,
\* the centre computed for it and whether the bounds test lets it be drawn.
\* The float expressions are evaluated exactly: (x + 0.5 + 0.5 * (y % 2)) is a
\* multiple of one half, and int() of the quotients is their floor.
CircleGridBoard_generate_board_image(b, width_px, height_px) ==
    [radius  |-> Min(width_px \div (4 * b.squares_x),
                     height_px \div (4 * b.squares_y)),
     circles |->
       { LET cx == IF b.asymmetric
                   THEN ((2 * x + 1 + (y % 2)) * width_px) \div (2 * b.squares_x)
                   ELSE ((2 * x + 1) * width_px) \div (2 * b.squares_x)
             cy == ((2 * y + 1) * height_px) \div (2 * b.squares_y)
         IN  [x |-> x, y |-> y, cx |-> cx, cy |-> cy,
              drawn |-> (0 <= cx /\ cx < width_px /\ 0 <= cy /\ cy < height_px)]
         : x \in 0..(b.squares_x - 1), y \in 0..(b.squares_y - 1) }]

\* cv2.resize(..., interpolation=cv2.INTER_NEAREST): the source index read for
\* destination index x when sw source pixels are resampled to dw. The library
\* evaluates the index in doubles, where a pixel standing exactly on the border
\* of two source pixels can read the earlier one; no property stated here
\* depends on which of the two a border pixel reads.
NearestIndex(x, sw, dw) == Min((x * sw) \div dw, sw - 1)

\* the parity grid with stripes: the row alone decides the value
checkerBaseStripes(squares_x, squares_y) ==
    [r \in 1..squares_y |-> [c \in 1..squares_x |-> (((r - 1) % 2) * 255) % 256]]

\* line 252: ((np.indices((sy, sx)).sum(axis=0) % 2) * 255).astype(np.uint8)
CheckerBase(squares_x, squares_y) ==
    [r \in 1..squares_y |-> [c \in 1..squares_x |-> ((((r - 1) + (c - 1)) % 2) * 255) % 256]]

\* Checkerboard._generate_board_image(width_px, height_px): pixel (x, y) of the
\* bitmap it returns, the parity grid resampled to the footprint
Checkerboard_generate_board_image(b, width_px, height_px, x, y) ==
    CheckerBase(b.squares_x, b.squares_y)[NearestIndex(y, b.squares_y, height_px) + 1]
                                         [NearestIndex(x, b.squares_x, width_px) + 1]

NoBitmap == [exc |-> "none", radius |-> 0, circles |-> {}]

\* self._generate_board_image(width_px, height_px) of the board's family.
\* Checkerboard resizes its parity grid, and cv2.resize rejects an empty
\* destination; the marker families hand the footprint to the vision backend,
\* which renders it or rejects the geometry.
generate_board_image(b, width_px, height_px) ==
    IF b.family = "circle"
    THEN LET g == CircleGridBoard_generate_board_image(b, width_px, height_px)
         IN  {[NoBitmap EXCEPT !.radius = g.radius, !.circles = g.circles]}
    ELSE IF width_px <= 0 \/ height_px <= 0
    THEN {[NoBitmap EXCEPT !.exc = "cv2.error"]}
    ELSE IF b.family = "checker"
    THEN {NoBitmap}
    ELSE {NoBitmap, [NoBitmap EXCEPT !.exc = "cv2.error"]}

NoImage ==
    [exc |-> "none", canvas_w |-> 0, canvas_h |-> 0, board_w |-> 0, board_h |-> 0,
     offset_x |-> 0, offset_y |-> 0, branch |-> "none", radius |-> 0,
     circles |-> {}, ndim |-> 0, dtype |-> ""]

\* lines 107-110 of generate: the family's bitmap for the footprint, resampled
\* to the footprint; cv2.resize rejects an empty source or destination
resampled(b) ==
    LET c   == compute_canvas_and_scale(b)
        \* line 103: canvas = 255 * np.ones((canvas_h_px, canvas_w_px), dtype=np.uint8)
        img == [NoImage EXCEPT !.canvas_w = c.canvas_w, !.canvas_h = c.canvas_h,
                               !.branch = c.branch, !.ndim = 2, !.dtype = "uint8"]
    IN  IF c.exc # "none"
        THEN {[img EXCEPT !.exc = c.exc]}
        ELSE { LET drawn == [img EXCEPT !.board_w = c.scaled_w, !.board_h = c.scaled_h,
                                        !.radius = g.radius, !.circles = g.circles]
               IN  IF g.exc # "none"
                   THEN [drawn EXCEPT !.exc = g.exc]
                   ELSE IF c.scaled_w <= 0 \/ c.scaled_h <= 0
                   THEN [drawn EXCEPT !.exc = "cv2.error"]
                   ELSE drawn
               : g \in generate_board_image(b, c.scaled_w, c.scaled_h) }

\* generate with the offsets not halved: the board is pushed to the far corner
generateUncentred(b) ==
    { IF g.exc # "none"
      THEN g
      ELSE [g EXCEPT !.offset_x = g.canvas_w - g.board_w,
                     !.offset_y = g.canvas_h - g.board_h]
      : g \in resampled(b) }

\* generate: scale, render, resample to the footprint, centre on the canvas
generate(b) ==
    { IF g.exc # "none"
      THEN g
      ELSE [g EXCEPT !.offset_x = (g.canvas_w - g.board_w) \div 2,
                     !.offset_y = (g.canvas_h - g.board_h) \div 2]
      : g \in resampled(b) }

\* pixel (X, Y) of the canvas a Checkerboard's generate returned as g (lines
\* 108-116): the bitmap, resampled once more to the footprint it already has,
\* is pasted at the offsets; the rest of the canvas keeps the 255 of line 103
Checkerboard_canvas_pixel(b, g, X, Y) ==
    LET x == X - g.offset_x
        y == Y - g.offset_y
    IN  IF 0 <= x /\ x < g.board_w /\ 0 <= y /\ y < g.board_h
        THEN Checkerboard_generate_board_image(b, g.board_w, g.board_h,
                 NearestIndex(x, g.board_w, g.board_w),
                 NearestIndex(y, g.board_h, g.board_h))
        ELSE 255

----------------------------------------------------------------------------
(* calibration/board.py : PDFExporter *)

\* a BytesIO: what has been written to it, in parts, and the stream position
NoBuf == [made |-> FALSE, data |-> <<>>, pos |-> 0]

NoPdf ==
    [exc |-> "none", paper_size |-> PyNone, formats |-> {}, dpi |-> 0,
     canvas |-> <<0, 0>>, figures |-> 0, buf |-> NoBuf, returned |-> FALSE]

\* plt.savefig(buf, format='pdf', ...): the document written to the stream, a
\* header, the page at the paper's size holding the canvas, and a trailer; the
\* position is left at the end
savefig(buf, page_mm, dpi, canvas) ==
    LET data == <<"%PDF", [page_mm |-> page_mm, dpi |-> dpi, image |-> canvas],
                  "%%EOF">>
    IN  [buf EXCEPT !.data = @ \o data, !.pos = @ + Len(data)]

\* PDFExporter.save with the figure opened before the paper format is tested
savePdfFigureFirst(canvas, paper_size, dpi, paper_sizes) ==
    LET call == [NoPdf EXCEPT !.paper_size = paper_size,
                              !.formats = DOMAIN paper_sizes,
                              !.dpi = dpi, !.canvas = canvas, !.figures = 1]
    IN  IF ~(IsStr(paper_size) /\ paper_size.s \in DOMAIN paper_sizes)
        THEN [call EXCEPT !.exc = "ValueError"]
        ELSE LET buf == savefig([NoBuf EXCEPT !.made = TRUE],
                                paper_sizes[paper_size.s], dpi, canvas)
             IN  [call EXCEPT !.buf = [buf EXCEPT !.pos = 0], !.returned = TRUE]

\* PDFExporter.save (lines 313-337): figures counts the figures opened
PDFExporter_save(canvas, paper_size, dpi, paper_sizes) ==
    LET call == [NoPdf EXCEPT !.paper_size = paper_size,
                              !.formats = DOMAIN paper_sizes,
                              !.dpi = dpi, !.canvas = canvas]
    IN  IF ~(IsStr(paper_size) /\ paper_size.s \in DOMAIN paper_sizes)
        THEN [call EXCEPT !.exc = "ValueError"]
        ELSE LET buf == savefig([NoBuf EXCEPT !.made = TRUE],
                                paper_sizes[paper_size.s], dpi, canvas)
             IN  [call EXCEPT !.figures = 1,
                              !.buf = [buf EXCEPT !.pos = 0],   \* buf.seek(0)
                              !.returned = TRUE]

----------------------------------------------------------------------------
(* The board's operations as actions *)

SquaresArgs == {PyInt(n) : n \in 1..MaxSquares} \cup {PyFloat(30), PyStr("5")}
LengthArgs  == {PyInt(-10), PyInt(0), PyInt(20), PyFloat(1), PyFloat(127),
                PyFloat(500), PyBool(TRUE), PyNaN, PyInf, PyStr("20")}
DpiArgs     == {PyInt(30), PyInt(50), PyInt(72), PyInt(150), PyInt(300),
                PyFloat(720)}
PaperArgs   == {PyStr("A4"), PyStr("A3"), PyStr("A5"), PyStr("Legal"), PyStr("A0"),
                PyInt(4)}

NoArgs ==
    [squares_x |-> PyNone, squares_y |-> PyNone, square_length_mm |-> PyNone,
     dpi |-> PyNone, paper_size |-> PyNone, aruco_dict_name |-> PyNone,
     marker_length_mm |-> PyNone, marker_length_ratio |-> PyNone,
     asymmetric |-> PyNone]

NoBout ==
    [op |-> "none", exc |-> "none", args |-> NoArgs, field |-> "", value |-> PyNone,
     scale |-> NoScale, image |-> NoImage, pdf |-> NoPdf]

\* board = Checkerboard(squares_x, squares_y, square_length_mm, dpi, paper_size),
\* the first operation of a run: when it raises there is no object to go on with
Construct ==
    /\ ~board.exists
    /\ bout.op = "none"
    /\ \E sx \in SquaresArgs, sy \in SquaresArgs, len \in LengthArgs,
          d \in DpiArgs, p \in PaperArgs :
         LET a == [NoArgs EXCEPT !.squares_x = sx, !.squares_y = sy,
                                 !.square_length_mm = len, !.dpi = d,
                                 !.paper_size = p]
             r == Checkerboard_init(a)
         IN  /\ board' = r.obj
             /\ bout' = [NoBout EXCEPT !.op = "init", !.exc = r.exc, !.args = a]
    /\ UNCHANGED <<calVars, remoteVars>>

Assign(field, value, r) ==
    /\ board' = r.obj
    /\ bout' = [NoBout EXCEPT !.op = "set", !.exc = r.exc,
                              !.field = field, !.value = value]

\* board.squares_x = value
SetSquaresX ==
    /\ board.exists
    /\ \E v \in SquaresArgs : Assign("squares_x", v, set_squares_x(board, v))
    /\ UNCHANGED <<calVars, remoteVars>>

\* board.squares_y = value
SetSquaresY ==
    /\ board.exists
    /\ \E v \in SquaresArgs : Assign("squares_y", v, set_squares_y(board, v))
    /\ UNCHANGED <<calVars, remoteVars>>

\* board.square_length_mm = value
SetSquareLength ==
    /\ board.exists
    /\ \E v \in LengthArgs :
         Assign("square_length_mm", v, set_square_length_mm(board, v))
    /\ UNCHANGED <<calVars, remoteVars>>

\* board.dpi = value
SetDpi ==
    /\ board.exists
    /\ \E v \in DpiArgs : Assign("dpi", v, set_dpi(board, v))
    /\ UNCHANGED <<calVars, remoteVars>>

\* board.paper_size = value
SetPaperSize ==
    /\ board.exists
    /\ \E v \in PaperArgs : Assign("paper_size", v, set_paper_size(board, v))
    /\ UNCHANGED <<calVars, remoteVars>>

\* board._compute_canvas_and_scale()
ComputeCanvasAndScale ==
    /\ board.exists
    /\ LET c == compute_canvas_and_scale(board)
       IN  bout' = [NoBout EXCEPT !.op = "scale", !.exc = c.exc, !.scale = c]
    /\ UNCHANGED <<board, calVars, remoteVars>>

\* board.generate()
Generate ==
    /\ board.exists
    /\ \E g \in generate(board) :
         bout' = [NoBout EXCEPT !.op = "generate", !.exc = g.exc, !.image = g]
    /\ UNCHANGED <<board, calVars, remoteVars>>

\* the arguments of checkerboards at the lowest resolution on the smallest
\* paper, whose canvases are small enough to be gone through pixel by pixel
DraftSquaresArgs == {PyInt(2), PyInt(3), PyInt(MaxSquares)}
DraftLengthArgs  == {PyInt(20), PyFloat(127)}

\* board = Checkerboard(squares_x, squares_y, square_length_mm, 50, "A5")
ConstructDraft ==
    /\ ~board.exists
    /\ bout.op = "none"
    /\ \E sx \in DraftSquaresArgs, sy \in DraftSquaresArgs, len \in DraftLengthArgs :
         LET a == [NoArgs EXCEPT !.squares_x = sx, !.squares_y = sy,
                                 !.square_length_mm = len, !.dpi = PyInt(50),
                                 !.paper_size = PyStr("A5")]
             r == Checkerboard_init(a)
         IN  /\ board' = r.obj
             /\ bout' = [NoBout EXCEPT !.op = "init", !.exc = r.exc, !.args = a]
    /\ UNCHANGED <<calVars, remoteVars>>

\* the arguments offered to the exporter: the board's table or a caller's own
ExportPaperArgs == {PyStr("A4"), PyStr("A5"), PyStr("InvalidSize"), PyInt(4)}
ExportTables    == {PAPER_SIZES, ("A4" :> <<210, 297>>)}
ExportDpiArgs   == {72, 300}

\* exporter(canvas=board.generate(), paper_size=..., dpi=..., paper_sizes=...)
ExportPdf ==
    /\ bout.op = "generate" /\ bout.exc = "none"
    /\ \E paper_size \in ExportPaperArgs, dpi \in ExportDpiArgs,
          paper_sizes \in ExportTables :
         LET r == PDFExporter_save(<<bout.image.canvas_w, bout.image.canvas_h>>,
                                   paper_size, dpi, paper_sizes)
         IN  bout' = [NoBout EXCEPT !.op = "export", !.exc = r.exc, !.pdf = r]
    /\ UNCHANGED <<board, calVars, remoteVars>>

\* the arguments offered to the constructors of the marker and circle families
FamilySquaresArgs == {PyInt(1), PyInt(2), PyInt(3), PyInt(MaxSquares)}
FamilyLengthArgs  == {PyFloat(1), PyInt(20), PyNaN}
FamilyDpiArgs     == {PyInt(30), PyInt(72)}
FamilyPaperArgs   == {PyStr("A4"), PyStr("A0")}
FamilyBaseArgs ==
    { [NoArgs EXCEPT !.squares_x = sx, !.squares_y = sy, !.square_length_mm = len,
                     !.dpi = d, !.paper_size = p]
      : sx \in FamilySquaresArgs, sy \in FamilySquaresArgs,
        len \in FamilyLengthArgs, d \in FamilyDpiArgs, p \in FamilyPaperArgs }
DictArgs         == {PyStr("4x4_50"), PyStr("5x5_250"), PyStr("9x9_50"), PyInt(5)}
MarkerLengthArgs == {PyInt(13), PyInt(0), PyNaN, PyStr("13")}
RatioArgs        == {PyFloat(5), PyInt(1), PyBool(TRUE), PyFloat(15), PyInt(0),
                     PyNaN, PyInf}
AsymmetricArgs   == {PyBool(TRUE), PyBool(FALSE), PyInt(1), PyNone}

\* a constructor call is the first operation of a run
Unbuilt == ~board.exists /\ bout.op = "none"

Constructing(a, r) ==
    /\ board' = r.obj
    /\ bout' = [NoBout EXCEPT !.op = "init", !.exc = r.exc, !.args = a]

\* board = CharucoBoard(..., marker_length_mm, ..., aruco_dict_name)
ConstructCharuco ==
    /\ Unbuilt
    /\ \E base \in FamilyBaseArgs, dict \in DictArgs, m \in MarkerLengthArgs :
         LET a == [base EXCEPT !.aruco_dict_name = dict, !.marker_length_mm = m]
         IN  Constructing(a, CharucoBoard_init(a))
    /\ UNCHANGED <<calVars, remoteVars>>

\* board = ArucoBoard(..., marker_length_ratio, ..., aruco_dict_name)
ConstructAruco ==
    /\ Unbuilt
    /\ \E base \in FamilyBaseArgs, dict \in DictArgs, ratio \in RatioArgs :
         LET a == [base EXCEPT !.aruco_dict_name = dict, !.marker_length_ratio = ratio]
         IN  Constructing(a, ArucoBoard_init(a))
    /\ UNCHANGED <<calVars, remoteVars>>

\* board = CircleGridBoard(..., asymmetric)
ConstructCircleGrid ==
    /\ Unbuilt
    /\ \E base \in FamilyBaseArgs, asym \in AsymmetricArgs :
         LET a == [base EXCEPT !.asymmetric = asym]
         IN  Constructing(a, CircleGridBoard_init(a))
    /\ UNCHANGED <<calVars, remoteVars>>

\* the inherited properties assigned on a board of the marker and circle
\* families: the constructors' values, and one more to accept or to refuse
InheritedLengthArgs == FamilyLengthArgs \cup {PyInt(0)}
InheritedDpiArgs    == FamilyDpiArgs \cup {PyInt(150)}
InheritedPaperArgs  == FamilyPaperArgs \cup {PyStr("A5")}

OfFamily == board.exists /\ board.family \in {"charuco", "aruco", "circle"}

\* board.squares_x = value
SetInheritedSquaresX ==
    /\ OfFamily
    /\ \E v \in FamilySquaresArgs : Assign("squares_x", v, set_squares_x(board, v))
    /\ UNCHANGED <<calVars, remoteVars>>

\* board.squares_y = value
SetInheritedSquaresY ==
    /\ OfFamily
    /\ \E v \in FamilySquaresArgs : Assign("squares_y", v, set_squares_y(board, v))
    /\ UNCHANGED <<calVars, remoteVars>>

\* board.square_length_mm = value
SetInheritedSquareLength ==
    /\ OfFamily
    /\ \E v \in InheritedLengthArgs :
         Assign("square_length_mm", v, set_square_length_mm(board, v))
    /\ UNCHANGED <<calVars, remoteVars>>

\* board.dpi = value
SetInheritedDpi ==
    /\ OfFamily
    /\ \E v \in InheritedDpiArgs : Assign("dpi", v, set_dpi(board, v))
    /\ UNCHANGED <<calVars, remoteVars>>

\* board.paper_size = value
SetInheritedPaperSize ==
    /\ OfFamily
    /\ \E v \in InheritedPaperArgs : Assign("paper_size", v, set_paper_size(board, v))
    /\ UNCHANGED <<calVars, remoteVars>>

\* board.aruco_dict_name = value
SetArucoDictName ==
    /\ board.exists /\ board.family \in {"charuco", "aruco"}
    /\ \E v \in DictArgs : Assign("aruco_dict_name", v, set_aruco_dict_name(board, v))
    /\ UNCHANGED <<calVars, remoteVars>>

\* board.marker_length_mm = value
SetMarkerLength ==
    /\ board.exists /\ board.family = "charuco"
    /\ \E v \in MarkerLengthArgs :
         Assign("marker_length_mm", v, set_marker_length_mm(board, v))
    /\ UNCHANGED <<calVars, remoteVars>>

\* board.marker_length_ratio = value
SetMarkerLengthRatio ==
    /\ board.exists /\ board.family = "aruco"
    /\ \E v \in RatioArgs :
         Assign("marker_length_ratio", v, set_marker_length_ratio(board, v))
    /\ UNCHANGED <<calVars, remoteVars>>

\* board.asymmetric = value
SetAsymmetric ==
    /\ board.exists /\ board.family = "circle"
    /\ \E v \in AsymmetricArgs : Assign("asymmetric", v, set_asymmetric(board, v))
    /\ UNCHANGED <<calVars, remoteVars>>

----------------------------------------------------------------------------
(* The file system the calibrator works on *)

SizeA == <<640, 480>>
SizeB == <<800, 600>>
NoSize == <<0, 0>>

\* what a folder entry can be: a sub-directory, a file cv2.imread cannot decode,
\* or an image of some resolution
EntryKinds ==
    { [suffix |-> "",     kind |-> "dir", size |-> NoSize],
      [suffix |-> ".jpg", kind |-> "bad", size |-> NoSize],
      [suffix |-> ".jpg", kind |-> "img", size |-> SizeA],
      [suffix |-> ".jpg", kind |-> "img", size |-> SizeB] }

\* the listings of a folder, in the order glob yields them
Listings == UNION { [1..k -> EntryKinds] : k \in 0..MaxFiles }

GoodImage == [suffix |-> ".jpg", kind |-> "img", size |-> SizeA]

\* "images" and "handeye" are directories, "notes.txt" is a regular file,
\* "missing" does not exist
FsWith(listing, files) ==
    [listing |-> [images |-> listing, handeye |-> <<GoodImage, GoodImage>>],
     dirs    |-> {"images", "handeye"} \cup {f.path.dir : f \in files},
     files   |-> files]

PathExists(fsys, name) == name \in fsys.dirs \/ name = "notes.txt"
PathIsDir(fsys, name)  == name \in fsys.dirs

\* the entry a path of a listed folder names
Entry(fsys, path) == fsys.listing[path.folder][path.idx]

\* fnmatch of an entry against the pattern
Matches(e, pattern) ==
    CASE pattern = "*"     -> TRUE
      [] pattern = "*.jpg" -> e.suffix = ".jpg"
      [] pattern = "*.png" -> e.suffix = ".png"
      [] OTHER             -> FALSE

\* list(self._image_folder.glob(pattern))
Glob(fsys, folder, pattern) ==
    LET all == [i \in 1..Len(fsys.listing[folder]) |-> [folder |-> folder, idx |-> i]]
    IN  SelectSeq(all, LAMBDA p : Matches(Entry(fsys, p), pattern))

----------------------------------------------------------------------------
(* calibration/calibration_base.py : CameraBaseCalibrator *)

\* a result mapping is a set of [key, val]; a value is a Python float, a numpy
\* array or a list, with its content v in units of 1e-12
Val(kind, ndim, v) == [kind |-> kind, ndim |-> ndim, v |-> v]
NoResult == [held |-> FALSE, data |-> {}]
Held(data) == [held |-> TRUE, data |-> data]
Keys(data) == {e.key : e \in data}
At(data, k) == (CHOOSE e \in data : e.key = k).val

NoCal ==
    [exists |-> FALSE, image_folder |-> "", pattern_size |-> <<0, 0>>,
     images_size |-> <<>>, calibration_result |-> NoResult]

NoPath == [dir |-> "", suffix |-> "", appended |-> ""]

NoCout ==
    [op |-> "none", exc |-> "none", msg |-> "", arg |-> PyNone, size_arg |-> [tuple |-> FALSE, items |-> <<>>],
     path |-> NoPath, ref_size |-> NoSize, image_paths |-> <<>>, called |-> {},
     ret |-> {}, before |-> NoResult, n_poses |-> 0, used_images |-> 0,
     used_poses |-> 0]

PyPath(x) == [t |-> "path", i |-> 0, s |-> x, f |-> "fin"]

\* image_folder.setter that drops the held result when the folder changes
setImageFolderDropsResult(fsys, c, value) ==
    IF value.t \notin {"str", "path"} THEN Raise("TypeError", c)
    ELSE IF ~PathExists(fsys, value.s) THEN Raise("ValueError", c)
    ELSE IF ~PathIsDir(fsys, value.s)  THEN Raise("ValueError", c)
    ELSE Ret([c EXCEPT !.image_folder = value.s, !.calibration_result = NoResult])

\* image_folder.setter without the is_dir test
setImageFolderAnyPath(fsys, c, value) ==
    IF value.t \notin {"str", "path"} THEN Raise("TypeError", c)
    ELSE IF ~PathExists(fsys, value.s) THEN Raise("ValueError", c)
    ELSE Ret([c EXCEPT !.image_folder = value.s])

\* image_folder.setter (lines 33-47)
set_image_folder(fsys, c, value) ==
    IF value.t \notin {"str", "path"} THEN Raise("TypeError", c)
    ELSE IF ~PathExists(fsys, value.s) THEN Raise("ValueError", c)
    ELSE IF ~PathIsDir(fsys, value.s)  THEN Raise("ValueError", c)
    ELSE Ret([c EXCEPT !.image_folder = value.s])

\* pattern_size.setter (lines 53-61); value is [tuple, items]
set_pattern_size(c, value) ==
    IF ~value.tuple \/ Len(value.items) # 2 THEN Raise("TypeError", c)
    ELSE IF \E i \in 1..2 : ~(IsInt(value.items[i]) /\ value.items[i].i >= 2)
    THEN Raise("ValueError", c)
    ELSE Ret([c EXCEPT !.pattern_size = <<value.items[1].i, value.items[2].i>>])

\* __init__ that leaves a result in place instead of setting None
initHoldsResult(fsys, image_folder, pattern_size) ==
    LET r1 == set_image_folder(fsys, NoCal, image_folder)
        r2 == Bind(r1, LAMBDA c : set_pattern_size(c, pattern_size))
    IN  IF r2.exc = "none"
        THEN Ret([r2.obj EXCEPT !.exists = TRUE, !.images_size = <<>>,
                                !.calibration_result =
                                    Held({[key |-> "ret", val |-> Val("float", 0, 0)]})])
        ELSE Raise(r2.exc, NoCal)

\* __init__ (lines 24-27)
CameraBaseCalibrator_init(fsys, image_folder, pattern_size) ==
    LET r1 == set_image_folder(fsys, NoCal, image_folder)
        r2 == Bind(r1, LAMBDA c : set_pattern_size(c, pattern_size))
    IN  IF r2.exc = "none"
        THEN Ret([r2.obj EXCEPT !.exists = TRUE, !.images_size = <<>>,
                                !.calibration_result = NoResult])
        ELSE Raise(r2.exc, NoCal)

\* the loop of lines 82-93: the sizes of the paths that are files and decode
RECURSIVE read_image_sizes(_, _)
read_image_sizes(fsys, image_paths) ==
    IF image_paths = <<>> THEN <<>>
    ELSE LET e    == Entry(fsys, Head(image_paths))
             rest == read_image_sizes(fsys, Tail(image_paths))
         IN  IF e.kind = "dir" THEN rest           \* not img_path.is_file()
             ELSE IF e.kind = "bad" THEN rest      \* cv2.imread gave None
             ELSE <<e.size>> \o rest

\* first_mismatch that compares only the last image with the reference
firstMismatchLastOnly(image_sizes) ==
    IF image_sizes[Len(image_sizes)] # image_sizes[1]
    THEN Len(image_sizes) - 1 ELSE -1

\* the loop of lines 98-103 over a non-empty list: the index (from 0) of the
\* first size that differs from image_sizes[0], -1 when there is none
first_mismatch(image_sizes) ==
    LET bad == {i \in 1..Len(image_sizes) : image_sizes[i] # image_sizes[1]}
    IN  IF bad = {} THEN -1
        ELSE (CHOOSE i \in bad : \A j \in bad : i <= j) - 1

CheckRet(exc, msg, ref_size, image_paths) ==
    [exc |-> exc, msg |-> msg, ref_size |-> ref_size, image_paths |-> image_paths]

\* _check_images_size without the "if not image_sizes" test of lines 95-96
checkImagesSizeNoEmptyTest(fsys, c, pattern) ==
    IF ~IsStr(pattern)
    THEN CheckRet("TypeError", "pattern must be a string", NoSize, <<>>)
    ELSE LET image_paths == Glob(fsys, c.image_folder, pattern.s)
             image_sizes == read_image_sizes(fsys, image_paths)
         IN  IF image_paths = <<>>
             THEN CheckRet("ValueError", "No images found with the given pattern",
                           NoSize, <<>>)
             ELSE IF image_sizes = <<>>
             THEN CheckRet("IndexError", "list index out of range",
                           NoSize, <<>>)
             ELSE IF first_mismatch(image_sizes) # -1
             THEN CheckRet("ValueError", "different resolution", NoSize, <<>>)
             ELSE CheckRet("none", "", image_sizes[1], image_paths)

\* _check_images_size returning only the paths it read
checkImagesSizeFiltered(fsys, c, pattern) ==
    IF ~IsStr(pattern)
    THEN CheckRet("TypeError", "pattern must be a string", NoSize, <<>>)
    ELSE LET image_paths == Glob(fsys, c.image_folder, pattern.s)
             image_sizes == read_image_sizes(fsys, image_paths)
         IN  IF image_paths = <<>>
             THEN CheckRet("ValueError", "No images found with the given pattern",
                           NoSize, <<>>)
             ELSE IF image_sizes = <<>>
             THEN CheckRet("ValueError", "No valid images found for calibration",
                           NoSize, <<>>)
             ELSE IF first_mismatch(image_sizes) # -1
             THEN CheckRet("ValueError", "different resolution", NoSize, <<>>)
             ELSE CheckRet("none", "", image_sizes[1],
                           SelectSeq(image_paths,
                                     LAMBDA p : Entry(fsys, p).kind = "img"))

\* _check_images_size (lines 63-105)
check_images_size(fsys, c, pattern) ==
    IF ~IsStr(pattern)
    THEN CheckRet("TypeError", "pattern must be a string", NoSize, <<>>)
    ELSE LET image_paths == Glob(fsys, c.image_folder, pattern.s)
             image_sizes == read_image_sizes(fsys, image_paths)
         IN  IF image_paths = <<>>
             THEN CheckRet("ValueError", "No images found with the given pattern",
                           NoSize, <<>>)
             ELSE IF image_sizes = <<>>
             THEN CheckRet("ValueError", "No valid images found for calibration",
                           NoSize, <<>>)
             ELSE IF first_mismatch(image_sizes) # -1
             THEN CheckRet("ValueError", "different resolution", NoSize, <<>>)
             ELSE CheckRet("none", "", image_sizes[1], image_paths)

\* str.lower() on the suffixes that occur
Lower(x) == IF x = ".NPZ" THEN ".npz" ELSE x

\* key.upper() on the keys that occur
Upper(k) ==
    IF k = "ret" THEN "RET"
    ELSE IF k = "matrix" THEN "MATRIX"
    ELSE IF k = "distortion" THEN "DISTORTION"
    ELSE k

\* "%.10f": the content rounded to ten decimals
Round10(v) == ((v + 50) \div 100) * 100

\* a write replaces whatever the path held; saved_from remembers the mapping
\* the calibrator held when it wrote the file
WriteFile(fsys, path, fmt, data, held) ==
    [fsys EXCEPT !.files =
        {f \in fsys.files : f.path # path}
        \cup {[path |-> path, fmt |-> fmt, data |-> data, saved_from |-> held]}]

\* np.savez_compressed appends ".npz" to a name that does not end in it
NpzFile(path) ==
    IF path.suffix = ".npz" THEN path ELSE [path EXCEPT !.appended = ".npz"]

\* np.asanyarray(value): a float becomes a 0-d array
AsArray(val) ==
    IF val.kind = "ndarray" THEN val ELSE Val("ndarray", val.ndim, val.v)

\* _save_npz storing every value with the text serializer's ten decimals
saveNpzRounded(fsys, c, path) ==
    LET held == c.calibration_result.data
    IN  WriteFile(fsys, NpzFile(path), "npz",
                  {[key |-> e.key, val |-> Val("ndarray", e.val.ndim, Round10(e.val.v))]
                     : e \in held}, held)

\* _save_npz (lines 139-141)
save_npz(fsys, c, path) ==
    LET held == c.calibration_result.data
    IN  WriteFile(fsys, NpzFile(path), "npz",
                  {[key |-> e.key, val |-> AsArray(e.val)] : e \in held}, held)

\* serialize (lines 146-156): arrays become lists, floats stay
Serialize(val) ==
    IF val.kind = "ndarray" THEN Val("list", val.ndim, val.v) ELSE val

\* _save_json (lines 143-161)
save_json(fsys, c, path) ==
    LET held == c.calibration_result.data
    IN  WriteFile(fsys, path, "json",
                  {[key |-> e.key, val |-> Serialize(e.val)] : e \in held}, held)

\* _save_txt (lines 163-172)
save_txt(fsys, c, path) ==
    LET held == c.calibration_result.data
    IN  WriteFile(fsys, path, "txt",
                  {[key |-> Upper(e.key),
                    val |-> IF e.val.kind = "ndarray"
                            THEN Val("text", e.val.ndim, Round10(e.val.v))
                            ELSE Val("text", e.val.ndim, e.val.v)] : e \in held},
                  held)

SaveRet(exc, msg, fsys, called) ==
    [exc |-> exc, msg |-> msg, fs |-> fsys, called |-> called]

Unsupported == "Unsupported file extension: use .npz, .json or .txt"

\* save_calibration_result with the text serializer as the fall-through branch
saveDefaultTxt(fsys, c, output_path) ==
    IF ~c.calibration_result.held
    THEN SaveRet("RuntimeError", "No calibration data available", fsys, {})
    ELSE LET made == [fsys EXCEPT !.dirs = @ \cup {output_path.dir}]
             ext  == Lower(output_path.suffix)
         IN  IF ext = ".npz"
             THEN SaveRet("none", "", save_npz(made, c, output_path), {"npz"})
             ELSE IF ext = ".json"
             THEN SaveRet("none", "", save_json(made, c, output_path), {"json"})
             ELSE SaveRet("none", "", save_txt(made, c, output_path), {"txt"})

\* save_calibration_result with the directory made before the result is tested
saveMkdirFirst(fsys, c, output_path) ==
    LET made == [fsys EXCEPT !.dirs = @ \cup {output_path.dir}]
        ext  == Lower(output_path.suffix)
    IN  IF ~c.calibration_result.held
        THEN SaveRet("RuntimeError", "No calibration data available", made, {})
        ELSE IF ext = ".npz"
        THEN SaveRet("none", "", save_npz(made, c, output_path), {"npz"})
        ELSE IF ext = ".json"
        THEN SaveRet("none", "", save_json(made, c, output_path), {"json"})
        ELSE IF ext = ".txt"
        THEN SaveRet("none", "", save_txt(made, c, output_path), {"txt"})
        ELSE SaveRet("ValueError", Unsupported, made, {})

\* save_calibration_result (lines 107-137)
save_calibration_result(fsys, c, output_path) ==
    IF ~c.calibration_result.held
    THEN SaveRet("RuntimeError", "No calibration data available", fsys, {})
    ELSE LET made == [fsys EXCEPT !.dirs = @ \cup {output_path.dir}]
             ext  == Lower(output_path.suffix)
         IN  IF ext = ".npz"
             THEN SaveRet("none", "", save_npz(made, c, output_path), {"npz"})
             ELSE IF ext = ".json"
             THEN SaveRet("none", "", save_json(made, c, output_path), {"json"})
             ELSE IF ext = ".txt"
             THEN SaveRet("none", "", save_txt(made, c, output_path), {"txt"})
             ELSE SaveRet("ValueError", Unsupported, made, {})

----------------------------------------------------------------------------
(* The concrete calibrators' calibrate, load_calibration_result and        *)
(* handeye_calibrate, as the specification describes them                  *)

\* what the external solver can return
ResultOf(n) ==
    { [key |-> "ret",        val |-> Val("float",   0, 100150 + n)],
      [key |-> "matrix",     val |-> Val("ndarray", 2, 200250 + n)],
      [key |-> "distortion", val |-> Val("ndarray", 2, 300350 + n)] }
SolverResults == {ResultOf(1), ResultOf(2)}

OpRet(exc, msg, c, ret) == [exc |-> exc, msg |-> msg, obj |-> c, ret |-> ret]

\* calibrate(pattern): validate the image set, detect and solve; the result
\* replaces the held one only when the whole call succeeds
calibrate(fsys, c, pattern) ==
    LET chk == check_images_size(fsys, c, pattern)
    IN  IF chk.exc # "none"
        THEN {OpRet(chk.exc, chk.msg, c, {})}
        ELSE {OpRet("cv2.error", "backend failure", c, {})}
             \cup {OpRet("none", "",
                         [c EXCEPT !.calibration_result = Held(r)], r)
                     : r \in SolverResults}

FileAt(fsys, path) == CHOOSE f \in fsys.files : f.path = path
HasFile(fsys, path) == \E f \in fsys.files : f.path = path

\* np.array(list) when a JSON document is read back
FromJson(val) ==
    IF val.kind = "list" THEN Val("ndarray", val.ndim, val.v) ELSE val

\* load_calibration_result(path): the inverse of save for the binary and the
\* JSON form; the loaded mapping replaces whatever is held
load_calibration_result(fsys, c, path) ==
    LET ext == Lower(path.suffix)
    IN  IF ext \notin {".npz", ".json"}
        THEN OpRet("ValueError", Unsupported, c, {})
        ELSE IF ~HasFile(fsys, path)
        THEN OpRet("FileNotFoundError", "", c, {})
        ELSE LET f    == FileAt(fsys, path)
                 data == IF f.fmt = "json"
                         THEN {[key |-> e.key, val |-> FromJson(e.val)] : e \in f.data}
                         ELSE f.data
             IN  OpRet("none", "", [c EXCEPT !.calibration_result = Held(data)], data)

HandEyeRet(exc, msg, used_images, used_poses) ==
    [exc |-> exc, msg |-> msg, used_images |-> used_images, used_poses |-> used_poses]

\* handeye_calibrate(gripper_poses, pattern): needs a held result and one pose
\* per matched image
handeye_calibrate(fsys, c, gripper_poses, pattern) ==
    IF ~c.calibration_result.held
    THEN {HandEyeRet("RuntimeError", "No calibration data available", 0, 0)}
    ELSE LET chk == check_images_size(fsys, c, pattern)
         IN  IF chk.exc # "none"
             THEN {HandEyeRet(chk.exc, chk.msg, 0, 0)}
             ELSE IF Len(gripper_poses) # Len(chk.image_paths)
             THEN {HandEyeRet("ValueError", "pose count mismatch", 0, 0)}
             ELSE {HandEyeRet("cv2.error", "backend failure", 0, 0),
                   HandEyeRet("none", "", Len(chk.image_paths), Len(gripper_poses))}

----------------------------------------------------------------------------
(* The calibrator's operations as actions *)

Tup(items) == [tuple |-> TRUE,  items |-> items]
Lst(items) == [tuple |-> FALSE, items |-> items]

FolderArgs  == {PyStr("images"), PyPath("handeye"), PyStr("missing"),
                PyStr("notes.txt"), PyInt(5)}
PatternSizeArgs ==
    {Tup(<<PyInt(9), PyInt(6)>>), Tup(<<PyInt(1), PyInt(6)>>), Tup(<<PyInt(9)>>),
     Lst(<<PyInt(9), PyInt(6)>>), Tup(<<PyInt(9), PyFloat(60)>>),
     Tup(<<PyInt(2), PyInt(2)>>), Tup(<<PyBool(TRUE), PyInt(6)>>)}
PatternArgs == {PyStr("*"), PyStr("*.jpg"), PyStr("*.png"), PyInt(0)}
OutPaths    == {[dir |-> "out", suffix |-> x, appended |-> ""]
                  : x \in {".npz", ".NPZ", ".json", ".txt", ".csv"}}
PoseLists   == {[i \in 1..n |-> i] : n \in 0..MaxPoses}
HandEyePatterns == {PyStr("*"), PyStr("*.jpg")}

\* calibrator = SomeCalibrator(image_folder, pattern_size), the first operation
\* of a run: when it raises there is no object to go on with
CalConstruct ==
    /\ ~cal.exists
    /\ cout.op = "none"
    /\ \E folder \in FolderArgs, psize \in PatternSizeArgs :
         LET r == CameraBaseCalibrator_init(fs, folder, psize)
         IN  /\ cal' = r.obj
             /\ cout' = [NoCout EXCEPT !.op = "init", !.exc = r.exc,
                                       !.arg = folder, !.size_arg = psize]
    /\ UNCHANGED <<fs, boardVars, remoteVars>>

\* calibrator.image_folder = value
SetImageFolder ==
    /\ cal.exists
    /\ \E v \in FolderArgs :
         LET r == set_image_folder(fs, cal, v)
         IN  /\ cal' = r.obj
             /\ cout' = [NoCout EXCEPT !.op = "set_image_folder", !.exc = r.exc,
                                       !.arg = v]
    /\ UNCHANGED <<fs, boardVars, remoteVars>>

\* calibrator.pattern_size = value
SetPatternSize ==
    /\ cal.exists
    /\ \E v \in PatternSizeArgs :
         LET r == set_pattern_size(cal, v)
         IN  /\ cal' = r.obj
             /\ cout' = [NoCout EXCEPT !.op = "set_pattern_size", !.exc = r.exc,
                                       !.size_arg = v]
    /\ UNCHANGED <<fs, boardVars, remoteVars>>

\* calibrator._check_images_size(pattern)
CheckImagesSize ==
    /\ cal.exists
    /\ \E pattern \in PatternArgs :
         LET r == check_images_size(fs, cal, pattern)
         IN  cout' = [NoCout EXCEPT !.op = "check", !.exc = r.exc, !.msg = r.msg,
                                    !.arg = pattern, !.ref_size = r.ref_size,
                                    !.image_paths = r.image_paths]
    /\ UNCHANGED <<fs, cal, boardVars, remoteVars>>

\* calibrator.save_calibration_result(output_path)
Save ==
    /\ cal.exists
    /\ \E output_path \in OutPaths :
         LET r == save_calibration_result(fs, cal, output_path)
         IN  /\ fs' = r.fs
             /\ cout' = [NoCout EXCEPT !.op = "save", !.exc = r.exc, !.msg = r.msg,
                                       !.path = output_path, !.called = r.called]
    /\ UNCHANGED <<cal, boardVars, remoteVars>>

\* calibrator.calibrate(pattern)
Calibrate ==
    /\ cal.exists
    /\ \E pattern \in PatternArgs :
         \E r \in calibrate(fs, cal, pattern) :
           /\ cal' = r.obj
           /\ cout' = [NoCout EXCEPT !.op = "calibrate", !.exc = r.exc, !.msg = r.msg,
                                     !.arg = pattern, !.ret = r.ret]
    /\ UNCHANGED <<fs, boardVars, remoteVars>>

\* calibrator.load_calibration_result(path); before records what was held when
\* the call was made
Load ==
    /\ cal.exists
    /\ \E path \in OutPaths :
         LET r == load_calibration_result(fs, cal, path)
         IN  /\ cal' = r.obj
             /\ cout' = [NoCout EXCEPT !.op = "load", !.exc = r.exc, !.msg = r.msg,
                                       !.path = path, !.ret = r.ret,
                                       !.before = cal.calibration_result]
    /\ UNCHANGED <<fs, boardVars, remoteVars>>

\* calibrator.handeye_calibrate(gripper_poses, pattern)
HandEye ==
    /\ cal.exists
    /\ \E gripper_poses \in PoseLists, pattern \in HandEyePatterns :
         \E r \in handeye_calibrate(fs, cal, gripper_poses, pattern) :
           cout' = [NoCout EXCEPT !.op = "handeye", !.exc = r.exc, !.msg = r.msg,
                                  !.arg = pattern, !.n_poses = Len(gripper_poses),
                                  !.used_images = r.used_images,
                                  !.used_poses = r.used_poses]
    /\ UNCHANGED <<fs, cal, boardVars, remoteVars>>

----------------------------------------------------------------------------
(* main.py : RemoteConnection *)

\* the SSH client: active from a connect() that returned until close(), with
\* the number of SFTP channels open on it; close() closes its channels too
NoSsh == [active |-> FALSE, channels |-> 0]

NoConn ==
    [exists |-> FALSE, hostname |-> "", port |-> 0, username |-> "",
     password |-> "", connected |-> FALSE, ssh |-> NoSsh]

set_hostname(c, value) ==
    IF ~IsStr(value) \/ value.s = ""
    THEN Raise("ValueError", c)
    ELSE Ret([c EXCEPT !.hostname = value.s])

set_port(c, value) ==
    IF ~IsInt(value) \/ ~(0 < value.i /\ value.i < 65536)
    THEN Raise("ValueError", c)
    ELSE Ret([c EXCEPT !.port = value.i])

set_username(c, value) ==
    IF ~IsStr(value) \/ value.s = ""
    THEN Raise("ValueError", c)
    ELSE Ret([c EXCEPT !.username = value.s])

set_password(c, value) ==
    IF ~IsStr(value)
    THEN Raise("ValueError", c)
    ELSE Ret([c EXCEPT !.password = value.s])

\* __init__ (lines 13-28): the four assignments, then the client and the flag
RemoteConnection_init(a) ==
    LET r1 == set_hostname(NoConn, a.hostname)
        r2 == Bind(r1, LAMBDA c : set_port(c, a.port))
        r3 == Bind(r2, LAMBDA c : set_username(c, a.username))
        r4 == Bind(r3, LAMBDA c : set_password(c, a.password))
    IN  IF r4.exc = "none"
        THEN Ret([r4.obj EXCEPT !.exists = TRUE, !.ssh = NoSsh, !.connected = FALSE])
        ELSE Raise(r4.exc, NoConn)

\* what a call did: the object afterwards, the exception it raised, how often
\* it called connect() and close() on the client, the SFTP channels it opened
\* and closed, the return path it took, and what it wrote and returned
Call(c) ==
    [obj |-> c, exc |-> "none", connect_calls |-> 0, close_calls |-> 0,
     opened |-> 0, closed |-> 0, path |-> "", made_dir |-> FALSE,
     command |-> {}, saved |-> {}, ret |-> {}]

\* ssh_connect with the flag set before the client has connected
sshConnectFlagFirst(c, reachable) ==
    IF c.connected
    THEN Call(c)
    ELSE IF ~reachable
    THEN [Call([c EXCEPT !.connected = TRUE]) EXCEPT !.exc = "SSHException",
                                                    !.connect_calls = 1]
    ELSE [Call([c EXCEPT !.connected = TRUE, !.ssh.active = TRUE])
              EXCEPT !.connect_calls = 1]

\* ssh_connect (lines 99-110); reachable says whether the client's connect()
\* returns or raises
ssh_connect(c, reachable) ==
    IF c.connected
    THEN Call(c)
    ELSE IF ~reachable
    THEN [Call(c) EXCEPT !.exc = "SSHException", !.connect_calls = 1]
    ELSE [Call([c EXCEPT !.ssh.active = TRUE, !.connected = TRUE])
              EXCEPT !.connect_calls = 1]

\* ssh_disconnect (lines 112-116)
ssh_disconnect(c) ==
    IF c.connected
    THEN [Call([c EXCEPT !.ssh = NoSsh, !.connected = FALSE]) EXCEPT !.close_calls = 1]
    ELSE Call(c)

\* `if not self._connected: self.ssh_connect()` at the head of a file operation
connect_first(c, reachable) ==
    IF ~c.connected THEN ssh_connect(c, reachable) ELSE Call(c)

\* the remote files: a name, a size, and whether stat, open and the reads after
\* the first chunk succeed on it
ChunkSize == 4096
BigSize == 5000

RemoteNames == {"a.jpg", "b.png"}

FileKinds ==
    { [size |-> BigSize, stat_ok |-> TRUE,  open_ok |-> TRUE,  read_ok |-> TRUE],
      [size |-> 0,       stat_ok |-> TRUE,  open_ok |-> TRUE,  read_ok |-> TRUE],
      [size |-> BigSize, stat_ok |-> FALSE, open_ok |-> TRUE,  read_ok |-> TRUE],
      [size |-> BigSize, stat_ok |-> TRUE,  open_ok |-> FALSE, read_ok |-> TRUE],
      [size |-> BigSize, stat_ok |-> TRUE,  open_ok |-> TRUE,  read_ok |-> FALSE] }

RemoteFile(name, kind) ==
    [name |-> name, size |-> kind.size, stat_ok |-> kind.stat_ok,
     open_ok |-> kind.open_ok, read_ok |-> kind.read_ok]

\* pattern.strip()
Strip(pattern) == IF pattern = " a.jpg " THEN "a.jpg" ELSE pattern

\* fnmatch(filename, pattern) on the names and patterns that occur
Fnmatch(filename, pattern) ==
    CASE pattern = "*.jpg" -> filename = "a.jpg"
      [] pattern = "*.png" -> filename = "b.png"
      [] OTHER             -> filename = pattern

\* _match_pattern (lines 75-84)
match_pattern(filename, pattern) ==
    LET p == Strip(pattern)
    IN  IF p = "*" THEN TRUE ELSE Fnmatch(filename, p)

RECURSIVE TotalBytes(_)
\* the loop of lines 161-168: the sizes of the files stat succeeds on, added up
TotalBytes(files) ==
    IF files = {} THEN 0
    ELSE LET f == CHOOSE g \in files : TRUE
         IN  (IF f.stat_ok THEN f.size ELSE 0) + TotalBytes(files \ {f})



\* the bytes the chunk loop gets out of a file that opened: all of it, or the
\* first chunk when a later read raises
BytesRead(f) == IF f.read_ok THEN f.size ELSE Min(f.size, ChunkSize)

\* self._ssh.open_sftp() after connect_first: k is the call so far
open_sftp(k) ==
    IF ~k.obj.ssh.active
    THEN [k EXCEPT !.exc = "SSHException"]
    ELSE [k EXCEPT !.obj.ssh.channels = @ + 1, !.opened = 1]

\* sftp.close()
sftp_close(k) == [k EXCEPT !.obj.ssh.channels = @ - 1, !.closed = 1]

\* download_files (lines 140-194): listing is what sftp.listdir gives, a set of
\* files or an IOError; saved are the local files written
download_files(c, reachable, listing, pattern) ==
    LET k == connect_first(c, reachable)
        o == open_sftp(k)
        matched == {f \in listing.files : match_pattern(f.name, pattern)}
    IN  IF k.exc # "none" THEN k
        ELSE IF o.exc # "none" THEN o
        ELSE IF ~listing.ok
        THEN [o EXCEPT !.made_dir = TRUE, !.path = "listdir_failed"]
        ELSE IF TotalBytes(matched) = 0
        THEN [o EXCEPT !.made_dir = TRUE, !.path = "no_files"]
        ELSE sftp_close([o EXCEPT !.made_dir = TRUE, !.path = "done",
                                  !.saved = {[name |-> f.name, bytes |-> BytesRead(f)]
                                               : f \in {g \in matched : g.open_ok}}])

\* load_files (lines 198-251): ret is the dictionary returned, name to content
load_files(c, reachable, listing, pattern) ==
    LET k == connect_first(c, reachable)
        o == open_sftp(k)
        matched == {f \in listing.files : match_pattern(f.name, pattern)}
    IN  IF k.exc # "none" THEN k
        ELSE IF o.exc # "none" THEN o
        ELSE IF ~listing.ok
        THEN [o EXCEPT !.path = "listdir_failed"]
        ELSE IF TotalBytes(matched) = 0
        THEN [o EXCEPT !.path = "no_files"]
        ELSE sftp_close([o EXCEPT !.path = "done",
                                  !.ret = {[name |-> f.name, bytes |-> f.size]
                                             : f \in {g \in matched :
                                                        g.open_ok /\ g.read_ok}}])

\* ext.lstrip('.')
Lstrip(ext) == IF ext = ".png" THEN "png" ELSE ext

\* search_files (lines 118-138): command holds the -iname extensions of the
\* find command, ret the lines of its output
search_files(c, reachable, extensions, output) ==
    LET k == connect_first(c, reachable)
    IN  IF k.exc # "none" THEN k
        ELSE IF extensions = <<>>
        THEN [k EXCEPT !.exc = "ValueError"]
        ELSE IF ~k.obj.ssh.active
        THEN [k EXCEPT !.exc = "SSHException"]
        ELSE [k EXCEPT !.command = {Lstrip(extensions[i]) : i \in 1..Len(extensions)},
                       !.ret = output]

----------------------------------------------------------------------------
(* The RemoteConnection's operations as actions *)

\* at most this many SFTP channels are open on the client at a time
MaxChannels == 2

HostArgs     == {PyStr("192.168.21.1"), PyStr(""), PyInt(0)}
PortArgs     == {PyInt(22), PyInt(0), PyInt(65536), PyStr("22")}
UserArgs     == {PyStr("rnf"), PyStr("")}
PasswordArgs == {PyStr("12345678"), PyStr(""), PyNone}

\* what sftp.listdir gives: an IOError, or the files of the directory
Listings2 ==
    {[ok |-> FALSE, files |-> {}]} \cup
    { [ok |-> TRUE, files |-> {RemoteFile(n, kinds[n]) : n \in names}]
        : names \in SUBSET RemoteNames, kinds \in [RemoteNames -> FileKinds] }

RemotePatterns  == {"*", "*.jpg", " a.jpg ", "a"}
ExtensionArgs   == {<<>>, <<"jpg">>, <<"jpg", ".png">>}
FindOutputs     == {{}, {"images/a.jpg"}}

NoRout ==
    [op |-> "none", exc |-> "none", ignored |-> "none", was_connected |-> FALSE,
     connect_calls |-> 0, close_calls |-> 0, opened |-> 0, closed |-> 0,
     path |-> "", made_dir |-> FALSE, command |-> {}, saved |-> {}, ret |-> {}]

\* the outcome of operation op, called when the flag was was_connected
Outcome(op, was_connected, k) ==
    [NoRout EXCEPT !.op = op, !.exc = k.exc, !.was_connected = was_connected,
                   !.connect_calls = k.connect_calls, !.close_calls = k.close_calls,
                   !.opened = k.opened, !.closed = k.closed, !.path = k.path,
                   !.made_dir = k.made_dir, !.command = k.command,
                   !.saved = k.saved, !.ret = k.ret]

\* ssh = RemoteConnection(hostname, port, username, password), the first
\* operation of a run. When __init__ raises, the half-built object is reclaimed
\* and its __del__ fails on the missing flag, which the interpreter ignores.
RemoteConstruct ==
    /\ ~conn.exists
    /\ rout.op = "none"
    /\ \E h \in HostArgs, p \in PortArgs, u \in UserArgs, w \in PasswordArgs :
         LET r == RemoteConnection_init([hostname |-> h, port |-> p,
                                         username |-> u, password |-> w])
         IN  /\ conn' = r.obj
             /\ rout' = [NoRout EXCEPT !.op = "init", !.exc = r.exc,
                                       !.ignored = IF r.exc = "none" THEN "none"
                                                   ELSE "AttributeError"]
    /\ UNCHANGED <<boardVars, calVars>>

\* ssh.ssh_connect()
SshConnect ==
    /\ conn.exists
    /\ \E reachable \in BOOLEAN :
         LET k == ssh_connect(conn, reachable)
         IN  /\ conn' = k.obj
             /\ rout' = Outcome("ssh_connect", conn.connected, k)
    /\ UNCHANGED <<boardVars, calVars>>

\* ssh.ssh_disconnect()
SshDisconnect ==
    /\ conn.exists
    /\ LET k == ssh_disconnect(conn)
       IN  /\ conn' = k.obj
           /\ rout' = Outcome("ssh_disconnect", conn.connected, k)
    /\ UNCHANGED <<boardVars, calVars>>

\* ssh.search_files(remote_dir, extensions)
SearchFiles ==
    /\ conn.exists
    /\ \E reachable \in BOOLEAN, extensions \in ExtensionArgs, output \in FindOutputs :
         LET k == search_files(conn, reachable, extensions, output)
         IN  /\ conn' = k.obj
             /\ rout' = Outcome("search_files", conn.connected, k)
    /\ UNCHANGED <<boardVars, calVars>>

\* ssh.download_files(remote_dir, local_dir, pattern)
DownloadFiles ==
    /\ conn.exists
    /\ conn.ssh.channels < MaxChannels
    /\ \E reachable \in BOOLEAN, listing \in Listings2, pattern \in RemotePatterns :
         LET k == download_files(conn, reachable, listing, pattern)
         IN  /\ conn' = k.obj
             /\ rout' = Outcome("download_files", conn.connected, k)
    /\ UNCHANGED <<boardVars, calVars>>

\* ssh.load_files(remote_dir, pattern)
LoadFiles ==
    /\ conn.exists
    /\ conn.ssh.channels < MaxChannels
    /\ \E reachable \in BOOLEAN, listing \in Listings2, pattern \in RemotePatterns :
         LET k == load_files(conn, reachable, listing, pattern)
         IN  /\ conn' = k.obj
             /\ rout' = Outcome("load_files", conn.connected, k)
    /\ UNCHANGED <<boardVars, calVars>>

\* the object is reclaimed: __del__ (lines 29-30) disconnects
Del ==
    /\ conn.exists
    /\ LET k == ssh_disconnect(conn)
       IN  /\ conn' = [k.obj EXCEPT !.exists = FALSE]
           /\ rout' = Outcome("del", conn.connected, k)
    /\ UNCHANGED <<boardVars, calVars>>

----------------------------------------------------------------------------
(* Specifications *)

RemoteIdle == conn = NoConn /\ rout = NoRout
BoardIdle == board = NoBoard /\ bout = NoBout /\ RemoteIdle
CalIdle   == fs = FsWith(<<GoodImage, GoodImage>>, {}) /\ cal = NoCal /\ cout = NoCout

\* the board generator on its own
BoardInit == BoardIdle /\ CalIdle

BoardNext ==
    \/ Construct
    \/ SetSquaresX
    \/ SetSquaresY
    \/ SetSquareLength
    \/ SetDpi
    \/ SetPaperSize
    \/ ComputeCanvasAndScale
    \/ Generate

SpecBoard == BoardInit /\ [][BoardNext]_vars

\* boards of the marker and circle families and assignments to every property
\* they have, inherited or their own
AssignNext ==
    \/ ConstructCharuco
    \/ ConstructAruco
    \/ ConstructCircleGrid
    \/ SetInheritedSquaresX
    \/ SetInheritedSquaresY
    \/ SetInheritedSquareLength
    \/ SetInheritedDpi
    \/ SetInheritedPaperSize
    \/ SetArucoDictName
    \/ SetMarkerLength
    \/ SetMarkerLengthRatio
    \/ SetAsymmetric

SpecAssign == BoardInit /\ [][AssignNext]_vars

\* checkerboards rendered at draft resolution
RenderNext ==
    \/ ConstructDraft
    \/ SetSquaresX
    \/ SetSquaresY
    \/ Generate

SpecRender == BoardInit /\ [][RenderNext]_vars

\* the marker and circle families: construction, their own properties, generate
FamiliesNext ==
    \/ ConstructCharuco
    \/ ConstructAruco
    \/ ConstructCircleGrid
    \/ SetArucoDictName
    \/ SetMarkerLength
    \/ SetMarkerLengthRatio
    \/ SetAsymmetric
    \/ Generate
    \/ ExportPdf

SpecFamilies == BoardInit /\ [][FamiliesNext]_vars

\* the result file an earlier run left behind: out/r.npz
EarlierFile == save_npz(FsWith(<<>>, {}), [NoCal EXCEPT !.calibration_result = Held(ResultOf(0))],
                        [dir |-> "out", suffix |-> ".npz", appended |-> ""]).files

\* a calibrator scanning an image folder of any listing, with the result file
\* of an earlier run at hand
ScanInit ==
    /\ BoardIdle
    /\ fs \in {FsWith(l, EarlierFile) : l \in Listings}
    /\ cal = NoCal
    /\ cout = NoCout

ScanNext ==
    \/ CalConstruct
    \/ SetImageFolder
    \/ SetPatternSize
    \/ CheckImagesSize
    \/ Calibrate
    \/ Load
    \/ HandEye

SpecScan == ScanInit /\ [][ScanNext]_vars

\* a calibrator computing, saving and loading results over a folder of two
\* good images
PersistInit == BoardIdle /\ CalIdle

PersistNext ==
    \/ CalConstruct
    \/ Calibrate
    \/ Save
    \/ Load

SpecPersist == PersistInit /\ [][PersistNext]_vars

\* a calibrator that computes a result and is then pointed at other folders
RetargetNext ==
    \/ CalConstruct
    \/ Calibrate
    \/ SetImageFolder
    \/ CheckImagesSize

SpecRetarget == PersistInit /\ [][RetargetNext]_vars

\* a connection to the remote machine, used and dropped
RemoteNext ==
    \/ RemoteConstruct
    \/ SshConnect
    \/ SshDisconnect
    \/ SearchFiles
    \/ DownloadFiles
    \/ LoadFiles
    \/ Del

SpecRemote == BoardInit /\ [][RemoteNext]_vars

----------------------------------------------------------------------------
(* Properties of the board *)

\* C1: whenever _compute_canvas_and_scale returns, on the width-bound and on the
\* height-bound branch alike, the footprint fits the canvas:
\* scaled_w <= canvas width and scaled_h <= canvas height.
C1_FootprintFits ==
    (bout.op = "scale" /\ bout.exc = "none") =>
        /\ bout.scale.branch \in {"width", "height"}
        /\ bout.scale.scaled_w <= bout.scale.canvas_w
        /\ bout.scale.scaled_h <= bout.scale.canvas_h

\* a board taller than the paper was re-fitted by height and is narrower than
\* the canvas
C1_Witness ==
    /\ bout.op = "scale" /\ bout.exc = "none"
    /\ bout.scale.branch = "height"
    /\ bout.scale.scaled_h = bout.scale.canvas_h
    /\ bout.scale.scaled_w < bout.scale.canvas_w

\* the width-bound case of C1 is reached as well
C1_WitnessWidth ==
    /\ bout.op = "scale" /\ bout.exc = "none"
    /\ bout.scale.branch = "width"
    /\ bout.scale.scaled_h < bout.scale.canvas_h

\* C2: whenever generate returns, the footprint sits at
\* offset = (canvas - board) // 2 on each axis, both offsets are >= 0,
\* offset + board dimension <= canvas dimension, and the padding before and
\* after the board differs by at most one pixel on each axis.
C2_Centred ==
    (bout.op = "generate" /\ bout.exc = "none") =>
        LET g  == bout.image
            rx == g.canvas_w - g.board_w - g.offset_x  \* padding right of the board
            ry == g.canvas_h - g.board_h - g.offset_y  \* padding below the board
        IN  /\ g.offset_x >= 0 /\ g.offset_y >= 0
            /\ g.offset_x + g.board_w <= g.canvas_w
            /\ g.offset_y + g.board_h <= g.canvas_h
            /\ rx - g.offset_x \in {0, 1}
            /\ ry - g.offset_y \in {0, 1}

\* a generated image whose horizontal padding is odd: the two sides differ by
\* exactly one pixel, and the vertical axis is filled
C2_Witness ==
    /\ bout.op = "generate" /\ bout.exc = "none"
    /\ bout.image.board_w >= 1 /\ bout.image.board_h >= 1
    /\ (bout.image.canvas_w - bout.image.board_w) % 2 = 1
    /\ bout.image.offset_x >= 1
    /\ bout.image.offset_y = 0

\* value > 0 as Python evaluates it: False for NaN
GtZero(v) ==
    \/ v.f = "inf"
    \/ v.f = "fin" /\ Tenths(v) > 0

\* the fields the claim calls valid
ClaimValidArgs(a) ==
    /\ a.squares_x.t = "int" /\ a.squares_x.i >= 2
    /\ a.squares_y.t = "int" /\ a.squares_y.i >= 2
    /\ IsNumber(a.square_length_mm) /\ GtZero(a.square_length_mm)
    /\ a.dpi.t = "int" /\ a.dpi.i >= 50
    /\ IsStr(a.paper_size) /\ a.paper_size.s \in DOMAIN PAPER_SIZES

\* C3: construction succeeds for every combination of valid fields, and with
\* any field invalid it raises ValueError and produces no board.
C3_ConstructionValidity ==
    bout.op = "init" =>
        /\ ClaimValidArgs(bout.args) => (bout.exc = "none" /\ board.exists)
        /\ ~ClaimValidArgs(bout.args) => (bout.exc = "ValueError" /\ ~board.exists)

\* C3 holds on every input but a NaN cell length
C3_ExceptNaN ==
    (bout.op = "init" /\ bout.args.square_length_mm.f # "nan") =>
        /\ ClaimValidArgs(bout.args) => (bout.exc = "none" /\ board.exists)
        /\ ~ClaimValidArgs(bout.args) => (bout.exc = "ValueError" /\ ~board.exists)

\* a stored length is > 0: not so for NaN
Positive(len) == len.k = "inf" \/ (len.k = "fin" /\ len.t > 0)

\* C12: every board that exists, whatever was assigned to it, has
\* squares_x >= 2, squares_y >= 2, square_length_mm > 0, dpi >= 50, a paper_size
\* of PAPER_SIZES, and for its family an aruco_dict_name of ARUCO_DICTS,
\* marker_length_mm > 0 (ChArUco) and 0 < marker_length_ratio <= 1 (ArUco grid).
C12_BoardInvariant ==
    board.exists =>
        /\ board.squares_x >= 2 /\ board.squares_y >= 2
        /\ Positive(board.square_length_mm)
        /\ board.dpi >= 50
        /\ board.paper_size \in DOMAIN PAPER_SIZES
        /\ board.family \in {"charuco", "aruco"} =>
              board.aruco_dict_name \in ARUCO_DICTS
        /\ board.family = "charuco" => Positive(board.marker_length_mm)
        /\ board.family = "aruco" =>
              /\ board.marker_length_ratio.k = "fin"
              /\ board.marker_length_ratio.t > 0
              /\ board.marker_length_ratio.t <= 10

\* C12 holds of every board no length of which is NaN
C12_ExceptNaN ==
    (/\ board.square_length_mm.k # "nan"
     /\ board.marker_length_mm.k # "nan") => C12_BoardInvariant

\* C14: the canvas generate returns is floor(paper_width_mm * dpi / 25.4) wide
\* and floor(paper_height_mm * dpi / 25.4) high (so less than one pixel short
\* of the paper's physical size on each axis), whatever the grid size and the
\* cell length are.  n = floor(p * dpi / 25.4) is 254 * n <= 10 * p * dpi <
\* 254 * (n + 1).
C14_CanvasSize ==
    (bout.op = "generate" /\ bout.exc = "none") =>
        LET paper == PAPER_SIZES[board.paper_size]
            g     == bout.image
        IN  /\ 254 * g.canvas_w <= 10 * paper[1] * board.dpi
            /\ 10 * paper[1] * board.dpi < 254 * (g.canvas_w + 1)
            /\ 254 * g.canvas_h <= 10 * paper[2] * board.dpi
            /\ 10 * paper[2] * board.dpi < 254 * (g.canvas_h + 1)

\* an A5 canvas at 150 dpi was returned: 874 x 1240 pixels, both dimensions
\* truncated (148 mm is 874.02 px and 210 mm is 1240.16 px)
C14_Witness ==
    /\ bout.op = "generate" /\ bout.exc = "none"
    /\ board.paper_size = "A5" /\ board.dpi = 150
    /\ bout.image.canvas_w = 874 /\ bout.image.canvas_h = 1240
    /\ board.squares_x # board.squares_y

\* C15: PDFExporter.save with a paper format that is not a key of the table it
\* is given raises ValueError with no figure opened and no buffer made; with a
\* format of the table it returns a stream that is not empty and stands at
\* offset 0.
C15_ExportPaperFormat ==
    bout.op = "export" =>
        LET r     == bout.pdf
            known == IsStr(r.paper_size) /\ r.paper_size.s \in r.formats
        IN  /\ ~known => /\ bout.exc = "ValueError"
                          /\ r.figures = 0
                          /\ ~r.buf.made /\ r.buf.data = <<>>
                          /\ ~r.returned
            /\ known => /\ bout.exc = "none"
                         /\ r.returned /\ r.buf.made
                         /\ Len(r.buf.data) > 0
                         /\ r.buf.pos = 0

\* "A5" is a format of the boards but not of the table handed to the exporter:
\* the export was refused
C15_Witness ==
    /\ bout.op = "export" /\ bout.exc = "ValueError"
    /\ bout.pdf.paper_size = PyStr("A5")
    /\ bout.pdf.formats = {"A4"}
    /\ bout.pdf.figures = 0

\* an export with a format of the table returned a document
C15_WitnessReturned ==
    /\ bout.op = "export" /\ bout.exc = "none"
    /\ bout.pdf.paper_size = PyStr("A4")
    /\ bout.pdf.buf.data # <<>> /\ bout.pdf.buf.pos = 0

\* the disc of circle c in a bitmap of the footprint of g: centre +/- radius
DiscInside(c, g) ==
    /\ 0 <= c.cx - g.radius /\ c.cx + g.radius <= g.board_w - 1
    /\ 0 <= c.cy - g.radius /\ c.cy + g.radius <= g.board_h - 1

CentreInside(c, g) ==
    /\ 0 <= c.cx /\ c.cx < g.board_w
    /\ 0 <= c.cy /\ c.cy < g.board_h

\* the bitmaps CircleGridBoard._generate_board_image has rendered
CircleBitmap ==
    bout.op = "generate" /\ board.family = "circle" /\ bout.image.circles # {}

CirclesAsClaimed(g) ==
    /\ \A c \in g.circles : c.drawn => DiscInside(c, g)
    /\ \A c \in g.circles : ~c.drawn => ~CentreInside(c, g)
    /\ ~board.asymmetric =>
          Cardinality({c \in g.circles : c.drawn}) = board.squares_x * board.squares_y

\* C17: in a circle grid every circle drawn has its whole disc inside the
\* footprint, a cell's circle is omitted only when its centre is outside the
\* footprint, and in symmetric mode all squares_x * squares_y circles are drawn.
C17_NeverClipped ==
    CircleBitmap => CirclesAsClaimed(bout.image)

\* the same on footprints of at least one pixel each way, where it holds
C17_ExceptEmptyFootprint ==
    (CircleBitmap /\ bout.image.board_w >= 1 /\ bout.image.board_h >= 1)
        => CirclesAsClaimed(bout.image)

\* a symmetric grid rendered on a footprint with room for discs of some radius
C17_WitnessDrawn ==
    /\ CircleBitmap /\ ~board.asymmetric /\ bout.exc = "none"
    /\ bout.image.radius >= 1
    /\ \A c \in bout.image.circles : c.drawn

\* the centre computed for cell (x, y)
CircleAt(circles, x, y) == CHOOSE c \in circles : c.x = x /\ c.y = y

\* d is q = num / den up to integer truncation: less than one away from it
Truncated(d, num, den) == den * d - num < den /\ num - den * d < den

\* C18: in asymmetric mode, for every column x the centre in an odd row lies
\* half a column width, width_px / (2 * squares_x) up to integer truncation,
\* to the right of the centre in an even row; the centres of even rows are
\* those of symmetric mode; and the rows keep the vertical positions of
\* symmetric mode, height_px / squares_y apart up to integer truncation.
C18_StaggeredLattice ==
    (CircleBitmap /\ board.asymmetric) =>
        LET g   == bout.image
            sx  == board.squares_x
            sy  == board.squares_y
            sym == CircleGridBoard_generate_board_image(
                       [board EXCEPT !.asymmetric = FALSE], g.board_w, g.board_h)
        IN  \A x \in 0..(sx - 1) :
              /\ \A ye, yo \in 0..(sy - 1) :
                    (ye % 2 = 0 /\ yo % 2 = 1) =>
                        LET d == CircleAt(g.circles, x, yo).cx - CircleAt(g.circles, x, ye).cx
                        IN  /\ Truncated(d, g.board_w, 2 * sx)
                            /\ d \in {g.board_w \div (2 * sx), g.board_w \div (2 * sx) + 1}
              /\ \A y \in 0..(sy - 1) :
                    /\ y % 2 = 0 =>
                          CircleAt(g.circles, x, y).cx = CircleAt(sym.circles, x, y).cx
                    /\ CircleAt(g.circles, x, y).cy = CircleAt(sym.circles, x, y).cy
              /\ \A y \in 0..(sy - 2) :
                    Truncated(CircleAt(g.circles, x, y + 1).cy - CircleAt(g.circles, x, y).cy,
                              g.board_h, sy)

\* an asymmetric grid of at least three rows was generated, and its second row
\* stands to the right of its first and third
C18_Witness ==
    /\ CircleBitmap /\ board.asymmetric /\ bout.exc = "none"
    /\ board.squares_y >= 3
    /\ CircleAt(bout.image.circles, 0, 1).cx > CircleAt(bout.image.circles, 0, 0).cx
    /\ CircleAt(bout.image.circles, 0, 2).cx = CircleAt(bout.image.circles, 0, 0).cx

\* the circles of row y that were drawn
DrawnInRow(g, y) == {c \in g.circles : c.y = y /\ c.drawn}

AsymmetricAsClaimed(g) ==
    /\ \A c \in g.circles :
          (c.y % 2 = 1 /\ c.x = board.squares_x - 1) => (c.cx = g.board_w /\ ~c.drawn)
    /\ Cardinality({c \in g.circles : ~c.drawn}) = board.squares_y \div 2
    /\ Cardinality({c \in g.circles : c.drawn})
          = board.squares_x * board.squares_y - (board.squares_y \div 2)
    /\ \A y \in 0..(board.squares_y - 1) :
          Cardinality(DrawnInRow(g, y))
            = (IF y % 2 = 1 THEN board.squares_x - 1 ELSE board.squares_x)

\* C25: in asymmetric mode the last column of every odd row has its centre at
\* cx = width_px and is omitted, exactly floor(squares_y / 2) circles are
\* omitted, squares_x * squares_y - floor(squares_y / 2) are drawn, and odd
\* rows hold squares_x - 1 circles, even rows squares_x.
C25_AsymmetricOmissions ==
    (CircleBitmap /\ board.asymmetric) => AsymmetricAsClaimed(bout.image)

\* the same on footprints of at least one pixel each way, where it holds
C25_OnNonEmptyFootprint ==
    (CircleBitmap /\ board.asymmetric
       /\ bout.image.board_w >= 1 /\ bout.image.board_h >= 1)
        => AsymmetricAsClaimed(bout.image)

\* an asymmetric grid on a non-empty footprint with an odd row: its last
\* circle is the only one of the row left out
C25_WitnessOddRow ==
    /\ CircleBitmap /\ board.asymmetric /\ bout.exc = "none"
    /\ bout.image.board_w >= 1 /\ bout.image.board_h >= 1
    /\ Cardinality(DrawnInRow(bout.image, 1)) = board.squares_x - 1

\* an asymmetric grid whose footprint is empty: no circle at all is drawn
C25_AllOmitted ==
    /\ CircleBitmap /\ board.asymmetric
    /\ bout.image.board_w >= 1 /\ bout.image.board_h = 0
    /\ \A c \in bout.image.circles : ~c.drawn

\* the canvases generate has returned for a Checkerboard
CheckerCanvas ==
    bout.op = "generate" /\ bout.exc = "none" /\ board.family = "checker"

\* C19: the canvas generate returns for a Checkerboard is a 2-D array of 8-bit
\* pixels, each of them 0 or 255: a pixel of the footprint has the value
\* 255 * ((row + col) mod 2) of the grid cell (row, col) it is resampled from,
\* and every pixel outside the footprint is 255.
C19_CheckerPixels ==
    CheckerCanvas =>
        LET g == bout.image
        IN  /\ g.ndim = 2 /\ g.dtype = "uint8"
            /\ \A Y \in 0..(g.canvas_h - 1) :
                  LET y   == Y - g.offset_y
                      inY == 0 <= y /\ y < g.board_h
                      row == NearestIndex(y, board.squares_y, g.board_h)
                  IN  \A X \in 0..(g.canvas_w - 1) :
                        LET x   == X - g.offset_x
                            inX == 0 <= x /\ x < g.board_w
                            col == NearestIndex(x, board.squares_x, g.board_w)
                            v   == Checkerboard_canvas_pixel(board, g, X, Y)
                        IN  /\ v \in {0, 255}
                            /\ (inX /\ inY) => v = 255 * ((row + col) % 2)
                            /\ ~(inX /\ inY) => v = 255

\* a checkerboard canvas with paper above the footprint, whose first footprint
\* row starts with a dark square and goes on with a light one
C19_Witness ==
    /\ CheckerCanvas
    /\ bout.image.offset_y > 0
    /\ Checkerboard_canvas_pixel(board, bout.image, 0, 0) = 255
    /\ Checkerboard_canvas_pixel(board, bout.image, bout.image.offset_x,
                                 bout.image.offset_y) = 0
    /\ \E X \in 0..(bout.image.canvas_w - 1) :
          Checkerboard_canvas_pixel(board, bout.image, X, bout.image.offset_y) = 255

\* the boards C20 calls valid
ValidBoard(b) ==
    /\ b.exists
    /\ b.squares_x >= 2 /\ b.squares_y >= 2
    /\ Positive(b.square_length_mm)
    /\ b.dpi >= 50
    /\ b.paper_size \in DOMAIN PAPER_SIZES

\* C20: for every valid board generate completes without an error: the
\* natural pixel width is >= 1, so the scale division is defined, and the
\* footprint is at least one pixel wide and one pixel high.
C20_GenerateCompletes ==
    (bout.op = "generate" /\ ValidBoard(board)) =>
        /\ bout.exc = "none"
        /\ compute_canvas_and_scale(board).nat_w >= 1
        /\ bout.image.board_w >= 1 /\ bout.image.board_h >= 1

\* a valid board of finite cell length whose natural width truncates to 0:
\* generate raised at the scale division
C20_ZeroDivision ==
    /\ bout.op = "generate" /\ ValidBoard(board)
    /\ board.square_length_mm.k = "fin"
    /\ bout.exc = "ZeroDivisionError"

\* the board after `board.<field> = value` has been accepted as it stands
Assigned(b, field, value) ==
    CASE field \in {"squares_x", "squares_y", "dpi"} ->
             [b EXCEPT ![field] = value.i]
      [] field \in {"square_length_mm", "marker_length_mm", "marker_length_ratio"} ->
             [b EXCEPT ![field] = ToFloat(value)]
      [] field \in {"paper_size", "aruco_dict_name"} ->
             [b EXCEPT ![field] = value.s]
      [] field = "asymmetric" ->
             [b EXCEPT ![field] = (value.i = 1)]

\* C21: an assignment to a board property that raises leaves every field of
\* the board as it was, and one that is accepted stores the value given,
\* never another one, and touches no other field.
C21_RejectedAssignment ==
    [][ bout'.op = "set" =>
          /\ bout'.exc # "none" => board' = board
          /\ bout'.exc = "none" => board' = Assigned(board, bout'.field, bout'.value)
      ]_vars

\* a dpi below the minimum was assigned to a board and refused
C21_Witness ==
    /\ bout.op = "set" /\ bout.exc = "ValueError"
    /\ bout.field = "dpi" /\ bout.value = PyInt(30)
    /\ board.exists /\ board.dpi = 150

\* a ratio above 1 was assigned to an ArUco grid and refused
C21_WitnessRatio ==
    /\ bout.op = "set" /\ bout.exc = "ValueError"
    /\ bout.field = "marker_length_ratio" /\ bout.value = PyFloat(15)
    /\ board.family = "aruco" /\ board.marker_length_ratio = [k |-> "fin", t |-> 5]

\* C13: the footprint _compute_canvas_and_scale returns is width-bound,
\* scaled_w = canvas_w and scaled_h = floor(board_h * canvas_w / board_w), unless
\* that height exceeds canvas_h, and then height-bound, scaled_h = canvas_h and
\* scaled_w = floor(board_w * canvas_h / board_h); so one dimension equals the
\* canvas's and the other is less than one pixel off the exact
\* aspect-preserving value.
C13_LargestFootprint ==
    (bout.op = "scale" /\ bout.exc = "none") =>
        LET c       == bout.scale
            by_w    == (c.nat_h * c.canvas_w) \div c.nat_w
            by_h    == (c.nat_w * c.canvas_h) \div c.nat_h
            Abs(n)  == IF n < 0 THEN -n ELSE n
        IN  /\ IF by_w <= c.canvas_h
               THEN c.scaled_w = c.canvas_w /\ c.scaled_h = by_w
               ELSE c.scaled_h = c.canvas_h /\ c.scaled_w = by_h
            /\ c.scaled_w = c.canvas_w \/ c.scaled_h = c.canvas_h
            /\ c.scaled_w = c.canvas_w =>
                 Abs(c.scaled_h * c.nat_w - c.nat_h * c.canvas_w) < c.nat_w
            /\ c.scaled_w # c.canvas_w =>
                 Abs(c.scaled_w * c.nat_h - c.nat_w * c.canvas_h) < c.nat_h

\* what the code keeps of C13: the branch taken is bound to its canvas
\* dimension and the other dimension is at most one pixel below the floor
C13_WithinOnePixel ==
    (bout.op = "scale" /\ bout.exc = "none") =>
        LET c    == bout.scale
            by_w == (c.nat_h * c.canvas_w) \div c.nat_w
        IN  IF c.branch = "width"
            THEN c.scaled_w = c.canvas_w /\ c.scaled_h \in {by_w - 1, by_w}
            ELSE /\ c.scaled_h = c.canvas_h
                 /\ c.scaled_w \in {((c.nat_w * c.canvas_h) \div c.nat_h) - 1,
                                     (c.nat_w * c.canvas_h) \div c.nat_h}

----------------------------------------------------------------------------
(* Properties of the calibrator *)

\* the matched paths that are regular files cv2.imread decodes, in glob order
Readable(fsys, paths) == SelectSeq(paths, LAMBDA p : Entry(fsys, p).kind = "img")
SizeOf(fsys, path) == Entry(fsys, path).size
\* the image set a check with this pattern looks at
Matched(pattern) == Glob(fs, cal.image_folder, pattern.s)
SameResolution(valid) ==
    \A i \in 1..Len(valid) : SizeOf(fs, valid[i]) = SizeOf(fs, valid[1])

\* C4: in _check_images_size the first successfully read image sets the
\* reference size; when every other read image has that size the call returns
\* the reference, and when any differs the call raises and returns nothing.
C4_SharedResolution ==
    (cout.op = "check" /\ IsStr(cout.arg)) =>
        LET valid == Readable(fs, Matched(cout.arg))
        IN  valid # <<>> =>
              IF SameResolution(valid)
              THEN cout.exc = "none" /\ cout.ref_size = SizeOf(fs, valid[1])
              ELSE /\ cout.exc = "ValueError"
                   /\ cout.msg = "different resolution"
                   /\ cout.ref_size = NoSize
                   /\ cout.image_paths = <<>>

\* three images were read, the first two agree and the third differs: the
\* call raised
C4_Witness ==
    /\ cout.op = "check" /\ IsStr(cout.arg)
    /\ LET valid == Readable(fs, Matched(cout.arg))
       IN  /\ Len(valid) = 3
           /\ SizeOf(fs, valid[2]) = SizeOf(fs, valid[1])
           /\ SizeOf(fs, valid[3]) # SizeOf(fs, valid[1])
    /\ cout.exc = "ValueError"

\* C5: on success _check_images_size returns the reference size and exactly the
\* matched paths that are files and were read, in glob order; skipped paths are
\* absent from the list.
C5_FilteredPaths ==
    (cout.op = "check" /\ cout.exc = "none") =>
        LET valid == Readable(fs, Matched(cout.arg))
        IN  /\ cout.ref_size = SizeOf(fs, valid[1])
            /\ cout.image_paths = valid

\* what the code returns instead: every matched path, skipped ones included
C5_ReturnsAllMatched ==
    (cout.op = "check" /\ cout.exc = "none") =>
        cout.image_paths = Matched(cout.arg)

\* C6: _check_images_size raises ValueError when the pattern matches no path
\* and when paths match but none is a readable image file; it returns only if
\* at least one image was read.
C6_NoImages ==
    (cout.op = "check" /\ IsStr(cout.arg)) =>
        LET matched == Matched(cout.arg)
            valid   == Readable(fs, matched)
        IN  /\ matched = <<>> =>
                 /\ cout.exc = "ValueError"
                 /\ cout.msg = "No images found with the given pattern"
            /\ (matched # <<>> /\ valid = <<>>) =>
                 /\ cout.exc = "ValueError"
                 /\ cout.msg = "No valid images found for calibration"
            /\ cout.exc = "none" => valid # <<>>

\* the pattern matched a directory and an undecodable file, nothing was read,
\* and the call raised
C6_Witness ==
    /\ cout.op = "check" /\ IsStr(cout.arg)
    /\ Len(Matched(cout.arg)) >= 2
    /\ Readable(fs, Matched(cout.arg)) = <<>>
    /\ cout.exc = "ValueError"

\* the pattern matched nothing in a folder that is not empty
C6_WitnessNoMatch ==
    /\ cout.op = "check" /\ IsStr(cout.arg)
    /\ fs.listing[cal.image_folder] # <<>>
    /\ Matched(cout.arg) = <<>>
    /\ cout.exc = "ValueError"

\* C7: save_calibration_result on a calibrator that holds no result raises
\* RuntimeError for every output path, creates no directory or file and leaves
\* the calibrator as it was.
C7_SaveWithoutResult ==
    [][ (cout'.op = "save" /\ ~cal.calibration_result.held) =>
            /\ cout'.exc = "RuntimeError"
            /\ cout'.called = {}
            /\ fs' = fs
            /\ cal' = cal ]_vars

\* a save to an unsupported extension was refused for want of a result, and
\* the output directory still does not exist
C7_Witness ==
    /\ cout.op = "save" /\ cout.exc = "RuntimeError"
    /\ cout.path.suffix = ".csv"
    /\ ~cal.calibration_result.held
    /\ "out" \notin fs.dirs
    /\ fs.files = {}

\* the files a step wrote or replaced
Written == fs'.files \ fs.files

\* C8: with a result held, save_calibration_result dispatches on the (lower-
\* cased) extension alone: .npz runs only the binary serializer, .json only the
\* JSON one, .txt only the text one, any other extension raises the ValueError
\* naming the three and writes no file; the held result is never changed.
C8_Dispatch ==
    [][ (cout'.op = "save" /\ cal.calibration_result.held) =>
            LET ext == Lower(cout'.path.suffix)
            IN  /\ ext = ".npz" =>
                     /\ cout'.exc = "none" /\ cout'.called = {"npz"}
                     /\ \A f \in Written : f.fmt = "npz" /\ f.path = NpzFile(cout'.path)
                /\ ext = ".json" =>
                     /\ cout'.exc = "none" /\ cout'.called = {"json"}
                     /\ \A f \in Written : f.fmt = "json" /\ f.path = cout'.path
                /\ ext = ".txt" =>
                     /\ cout'.exc = "none" /\ cout'.called = {"txt"}
                     /\ \A f \in Written : f.fmt = "txt" /\ f.path = cout'.path
                /\ ext \notin {".npz", ".json", ".txt"} =>
                     /\ cout'.exc = "ValueError" /\ cout'.msg = Unsupported
                     /\ cout'.called = {}
                     /\ fs'.files = fs.files
                /\ cal' = cal ]_vars

\* a calibrator holding a result was asked for a .csv file: it raised, and no
\* result file exists
C8_Witness ==
    /\ cout.op = "save" /\ cout.exc = "ValueError"
    /\ cout.path.suffix = ".csv"
    /\ cal.calibration_result.held
    /\ fs.files = {}

\* an upper-case .NPZ went to the binary serializer
C8_WitnessUpper ==
    /\ cout.op = "save" /\ cout.exc = "none"
    /\ cout.path.suffix = ".NPZ"
    /\ cout.called = {"npz"}

C10_WitnessShort ==
    /\ cout.op = "handeye" /\ cout.exc = "ValueError"
    /\ cout.msg = "pose count mismatch"
    /\ cout.n_poses < Len(Matched(cout.arg))

\* a solve before any calibrate or load was refused
C10_WitnessNoResult ==
    /\ cout.op = "handeye" /\ cout.exc = "RuntimeError"
    /\ ~cal.calibration_result.held

\* what C16 asks of an image folder and of a pattern size
IsImageFolder(fsys, v) ==
    /\ v.t \in {"str", "path"}
    /\ PathExists(fsys, v.s) /\ PathIsDir(fsys, v.s)

IsPatternSize(v) ==
    /\ v.tuple /\ Len(v.items) = 2
    /\ \A i \in 1..2 : IsInt(v.items[i]) /\ v.items[i].i >= 2

\* C16: constructing a calibrator succeeds exactly when the image folder exists
\* and is a directory and pattern_size is a 2-tuple of integers >= 2, and
\* raises otherwise; an assignment of image_folder or pattern_size is accepted
\* under the same condition, so the calibrator always holds a directory and a
\* pattern size of two integers >= 2.
C16_CalibratorValidation ==
    /\ cout.op = "init" =>
          /\ cal.exists <=> (IsImageFolder(fs, cout.arg) /\ IsPatternSize(cout.size_arg))
          /\ cal.exists <=> cout.exc = "none"
          /\ ~cal.exists => cout.exc \in {"TypeError", "ValueError"}
          /\ cal.exists => /\ cal.image_folder = cout.arg.s
                            /\ cal.pattern_size = <<cout.size_arg.items[1].i,
                                                     cout.size_arg.items[2].i>>
    /\ cout.op = "set_image_folder" =>
          /\ cout.exc = "none" <=> IsImageFolder(fs, cout.arg)
          /\ cout.exc # "none" => cout.exc \in {"TypeError", "ValueError"}
          /\ cout.exc = "none" => cal.image_folder = cout.arg.s
    /\ cout.op = "set_pattern_size" =>
          /\ cout.exc = "none" <=> IsPatternSize(cout.size_arg)
          /\ cout.exc # "none" => cout.exc \in {"TypeError", "ValueError"}
          /\ cout.exc = "none" =>
                cal.pattern_size = <<cout.size_arg.items[1].i, cout.size_arg.items[2].i>>
    /\ cal.exists => /\ PathIsDir(fs, cal.image_folder)
                      /\ cal.pattern_size[1] >= 2 /\ cal.pattern_size[2] >= 2

\* a calibrator of the folder "images" was assigned the regular file
\* "notes.txt" as its folder, and the assignment was refused
C16_Witness ==
    /\ cout.op = "set_image_folder" /\ cout.exc = "ValueError"
    /\ cout.arg = PyStr("notes.txt")
    /\ cal.exists /\ cal.image_folder = "images"

\* construction with a pattern size holding True was refused
C16_WitnessInit ==
    /\ cout.op = "init" /\ cout.exc = "ValueError" /\ ~cal.exists
    /\ IsImageFolder(fs, cout.arg)
    /\ cout.size_arg = Tup(<<PyBool(TRUE), PyInt(6)>>)

\* a later assignment of the smallest pattern size was accepted
C16_WitnessAssigned ==
    /\ cout.op = "set_pattern_size" /\ cout.exc = "none"
    /\ cal.pattern_size = <<2, 2>>

\* C22: assigning image_folder, accepted or refused, and calling
\* _check_images_size, returning or raising, leave the held calibration result
\* and pattern_size as they were; a refused image_folder assignment keeps the
\* folder validated before, and _check_images_size changes no field at all.
C22_RetargetKeepsResult ==
    [][ /\ cout'.op \in {"set_image_folder", "check"} =>
              /\ cal'.calibration_result = cal.calibration_result
              /\ cal'.pattern_size = cal.pattern_size
        /\ (cout'.op = "set_image_folder" /\ cout'.exc # "none") =>
              cal'.image_folder = cal.image_folder
        /\ cout'.op = "check" => cal' = cal
      ]_vars

\* a calibrator holding a result was pointed at the hand-eye folder
C22_Witness ==
    /\ cout.op = "set_image_folder" /\ cout.exc = "none"
    /\ cout.arg = PyPath("handeye")
    /\ cal.image_folder = "handeye"
    /\ cal.calibration_result.held

\* a calibrator holding a result scanned a pattern that matches nothing
C22_WitnessCheckFailed ==
    /\ cout.op = "check" /\ cout.exc = "ValueError"
    /\ cal.calibration_result.held

\* a calibrator holding a result refused a folder that does not exist
C22_WitnessRefused ==
    /\ cout.op = "set_image_folder" /\ cout.exc = "ValueError"
    /\ cout.arg = PyStr("missing")
    /\ cal.calibration_result.held

----------------------------------------------------------------------------
(* Properties of the remote connection *)

\* a file operation that opened an SFTP channel and returned
FileOpReturned ==
    /\ rout.op \in {"download_files", "load_files"}
    /\ rout.exc = "none" /\ rout.opened = 1

\* C23: when download_files or load_files returns, on whichever path, the
\* SFTP channel the call opened has been closed.
C23_ChannelReleased ==
    FileOpReturned => (rout.closed = 1 /\ conn.ssh.channels = 0)

\* the channel is closed on the path that runs to the end of the method, and
\* on no other
C23_ClosedOnlyAtEnd ==
    FileOpReturned => (rout.closed = 1 <=> rout.path = "done")

\* download_files returned after the remote directory could not be listed, and
\* its channel is still open on the client
C23_Leak ==
    /\ rout.op = "download_files" /\ rout.exc = "none"
    /\ rout.path = "listdir_failed"
    /\ rout.opened = 1 /\ rout.closed = 0
    /\ conn.ssh.channels >= 1

\* C24: the _connected flag is True exactly when the SSH client has been
\* connected and not closed since: ssh_connect on a connected object does not
\* connect again, ssh_disconnect on a disconnected one does not close, a
\* connect that raises leaves the flag False, and a file operation connects
\* first exactly when the flag is False.
C24_ConnectedFlag ==
    /\ conn.exists => (conn.connected <=> conn.ssh.active)
    /\ rout.op = "ssh_connect" =>
          /\ rout.was_connected => (rout.connect_calls = 0 /\ rout.exc = "none")
          /\ ~rout.was_connected => rout.connect_calls = 1
          /\ rout.exc # "none" => ~conn.connected
          /\ rout.exc = "none" => conn.connected
          /\ rout.close_calls = 0
    /\ rout.op \in {"ssh_disconnect", "del"} =>
          /\ rout.close_calls = (IF rout.was_connected THEN 1 ELSE 0)
          /\ rout.connect_calls = 0
          /\ ~conn.connected
    /\ rout.op \in {"search_files", "download_files", "load_files"} =>
          /\ rout.connect_calls = (IF rout.was_connected THEN 0 ELSE 1)
          /\ rout.close_calls = 0
          /\ (rout.connect_calls = 1 /\ rout.exc = "SSHException") => ~conn.connected
          /\ (rout.was_connected \/ rout.exc # "SSHException") => conn.connected

\* a file operation on a disconnected object tried to connect, the connect
\* raised, and the flag is still False
C24_Witness ==
    /\ rout.op = "load_files" /\ ~rout.was_connected
    /\ rout.connect_calls = 1 /\ rout.exc = "SSHException"
    /\ conn.exists /\ ~conn.connected /\ ~conn.ssh.active

\* ssh_connect was called on a connected object and did nothing
C24_WitnessTwice ==
    /\ rout.op = "ssh_connect" /\ rout.was_connected /\ rout.connect_calls = 0
    /\ conn.connected /\ conn.ssh.active

\* a search on a disconnected object connected first and then refused the
\* empty extension list
C24_WitnessSearch ==
    /\ rout.op = "search_files" /\ ~rout.was_connected /\ rout.exc = "ValueError"
    /\ rout.connect_calls = 1 /\ conn.connected

C11_WitnessEmpty ==
    /\ cout.op = "load" /\ cout.exc = "none"
    /\ ~cout.before.held
    /\ cal.calibration_result.held

\* a load over a result that was itself loaded
C11_WitnessReload ==
    /\ cout.op = "load" /\ cout.exc = "none"
    /\ cout.before.held /\ cout.before.data \notin SolverResults
    /\ cal.calibration_result = cout.before

====
